---- MODULE Spec2Model ----
(***************************************************************************)
(* Signal scoring, trade-plan generation and orchestration of the Bitcoin *)
(* macro model (bitcoin_model/core.py, models/fed_pivot.py,               *)
(* models/m2_miner.py, config/settings.py), the retry decorator           *)
(* (utils/error_handling.py) and the automated trader with its            *)
(* configuration and safety manager (exchange_integration/                *)
(* automated_trader.py, exchange_integration/trading_config.py).          *)
(*                                                                         *)
(* Numbers.  Every Python float of the source is modelled as an exact     *)
(* rational [n |-> numerator, d |-> denominator] in lowest terms with     *)
(* d > 0, so 0.6 is Q(6, 10) and 2.35e6 is Q(2350000, 1).  Arithmetic is  *)
(* exact; IEEE-754 rounding of the source's doubles is not modelled.      *)
(* An Optional[float] is <<>> for None and <<q>> for a value q.           *)
(* A Python dict is a TLA+ record; dict.get(k, default) is Get.           *)
(***************************************************************************)
EXTENDS Integers, Sequences, FiniteSets, TLC

VARIABLES
    settings,         \* Settings instance shared by construction (RISK_PROFILE, SIGNAL_THRESHOLDS)
    portfolio_value,  \* the portfolio_value argument of the call
    op,               \* the public operation that has run ("none" before any call)
    fetched,          \* what the data providers answered during the call, per scenario
    analysis,         \* return value of a scenario model's analyze
    all_signals,      \* return value of get_all_signals
    strongest,        \* return value of get_strongest_signal
    health,           \* return value of BitcoinMacroModel.health_check
    request,          \* the scenario argument of a run_analysis call
    run_outcome,      \* how the run_analysis call ended: raised or returned
    invoked,          \* the scenarios whose model.analyze the run_analysis call reached
    previous,         \* return value of the analyze call before the latest one
    comparison,       \* two rate sub-scores, a reserve score, and their combined scores
    retry,            \* a call of a function wrapped by retry_on_exception
    safety,           \* SafetyManager: daily_pnl, consecutive_losses, last_price_check, trades_today
    checks,           \* return value of SafetyManager.check_safety_conditions
    config,           \* the TradingConfig handed to AutomatedTrader
    trader,           \* AutomatedTrader: is_running, current_position, last_signal_check
    orders,           \* orders sent to the exchange (create_market_buy_order / create_limit_buy_order)
    now               \* datetime.now() as the trader sees it, in minutes since its construction

\* The state of exchange_integration: the trader, its configuration, its
\* SafetyManager and the exchange orders.
trader_vars == <<safety, checks, config, trader, orders, now>>

vars == <<settings, portfolio_value, op, fetched, analysis, all_signals, strongest, health,
          request, run_outcome, invoked, previous, comparison, retry, trader_vars>>

-----------------------------------------------------------------------------
(* Bounds of the input grids *)

MaxRateHalfPoints == 10     \* fed funds rate: 0.0, 0.5, ..., MaxRateHalfPoints / 2 percent
MaxMagnitudeHalves == 3     \* pivot magnitude: 0.0, 0.5, ..., MaxMagnitudeHalves / 2
MaxAccelSteps == 3          \* M2 acceleration: -k/50 .. k/50 for k up to MaxAccelSteps
MaxPortfolioSteps == 2      \* portfolio value: 50000 * k for k in 1..MaxPortfolioSteps
MaxScenarioId == 3          \* scenario ids asked of run_analysis: -1 .. MaxScenarioId
MaxScoreSteps == 10         \* sub-scores compared: k / MaxScoreSteps for k in 0..MaxScoreSteps

-----------------------------------------------------------------------------
(* Exact arithmetic standing for the source's float arithmetic *)

Abs(x) == IF x < 0 THEN -x ELSE x

RECURSIVE GCD(_, _)
GCD(a, b) == IF b = 0 THEN a ELSE GCD(b, a % b)

\* n / d with the common factor g removed
Reduce(n, d, g) == [n |-> n \div g, d |-> d \div g]

Q(n, d) == Reduce(n, d, GCD(Abs(n), d))

QAdd(a, b) == Q(a.n * b.d + b.n * a.d, a.d * b.d)

QSub(a, b) == QAdd(a, [n |-> -b.n, d |-> b.d])

QMul(a, b) == Q(a.n * b.n, a.d * b.d)

QDiv(a, b) == QMul(a, IF b.n < 0 THEN [n |-> -b.d, d |-> -b.n] ELSE [n |-> b.d, d |-> b.n])

QLt(a, b) == a.n * b.d < b.n * a.d
QLe(a, b) == a.n * b.d <= b.n * a.d
QGe(a, b) == QLe(b, a)
QGt(a, b) == QLt(b, a)
QMin(a, b) == IF QLt(b, a) THEN b ELSE a
QMax(a, b) == IF QGt(b, a) THEN b ELSE a

Zero == Q(0, 1)
One == Q(1, 1)

None == <<>>
Some(v) == <<v>>
Val(o) == o[1]

Get(dict, key, default) == IF key \in DOMAIN dict THEN dict[key] ELSE default

-----------------------------------------------------------------------------
(* config/settings.py *)

POSITION_LIMITS ==
    [conservative |-> [base |-> Q(3, 100),  max |-> Q(10, 100)],
     moderate     |-> [base |-> Q(5, 100),  max |-> Q(15, 100)],
     aggressive   |-> [base |-> Q(10, 100), max |-> Q(25, 100)]]

SIGNAL_THRESHOLDS == [scenario_1 |-> Q(70, 100), scenario_2 |-> Q(75, 100)]

EXCHANGE_RESERVE_THRESHOLDS ==
    [critical_low  |-> Q(2350000, 1),
     low           |-> Q(2500000, 1),
     high          |-> Q(2800000, 1),
     critical_high |-> Q(3000000, 1)]

M2_THRESHOLDS ==
    [extreme_expansion |-> Q(15, 100),
     strong_expansion  |-> Q(10, 100),
     normal_expansion  |-> Q(5, 100),
     contraction       |-> Zero]

FED_RATE_THRESHOLDS ==
    [ultra_low |-> Q(1, 1), low |-> Q(3, 1), neutral |-> Q(5, 1), high |-> Q(5, 1)]

\* Settings.get_position_limits(): profile = risk_profile or self.RISK_PROFILE,
\* an unknown profile falls back to 'moderate'.
get_position_limits(s) ==
    Get(POSITION_LIMITS, s.RISK_PROFILE, POSITION_LIMITS.moderate)

\* Settings.get_signal_threshold(scenario)
get_signal_threshold(s, scenario) ==
    Get(s.SIGNAL_THRESHOLDS,
        IF scenario = 1 THEN "scenario_1" ELSE "scenario_2",
        Q(7, 10))

-----------------------------------------------------------------------------
(* models/fed_pivot.py : Scenario 1, Fed pivot + low exchange reserves *)
(*                                                                         *)
(* A local of the source that is read more than once is passed on as an    *)
(* operator parameter, so each method is a short chain of operators.       *)

\* FedPivotModel.get_fed_data.  fred is what the FRED client answers during
\* the call: [raises |-> TRUE] when one of its calls raises, else the current
\* rate (Optional) and the dict of detect_fed_pivot.  The keys trend_change,
\* m2_growth_rate and timestamp are carried by the source but read by no
\* scoring code; they are left out.
FedPivot_get_fed_data(fred) ==
    IF fred.raises
    THEN [fed_funds_rate |-> None, pivot_detected |-> FALSE, error |-> "fred failure"]
    ELSE [fed_funds_rate  |-> fred.current_rate,
          pivot_detected  |-> Get(fred.pivot_info, "pivot_detected", FALSE),
          pivot_direction |-> Get(fred.pivot_info, "direction", "neutral"),
          pivot_magnitude |-> Get(fred.pivot_info, "magnitude", Zero)]

\* The reserve bucket scan (fed_pivot.py:91-107)
\* (a faulty variant whose buckets include their boundaries; C16 rejects it)
classify_reserves_inclusive(reserves, thresholds) ==
    IF QLe(reserves, thresholds.critical_low)
        THEN [level |-> "critical_low", score |-> One]
    ELSE IF QLe(reserves, thresholds.low)
        THEN [level |-> "low", score |-> Q(7, 10)]
    ELSE IF QGe(reserves, thresholds.critical_high)
        THEN [level |-> "critical_high", score |-> Zero]
    ELSE IF QGe(reserves, thresholds.high)
        THEN [level |-> "high", score |-> Q(2, 10)]
    ELSE [level |-> "normal", score |-> Q(4, 10)]
classify_reserves(reserves, thresholds) ==
    IF QLt(reserves, thresholds.critical_low)
        THEN [level |-> "critical_low", score |-> One]
    ELSE IF QLt(reserves, thresholds.low)
        THEN [level |-> "low", score |-> Q(7, 10)]
    ELSE IF QGt(reserves, thresholds.critical_high)
        THEN [level |-> "critical_high", score |-> Zero]
    ELSE IF QGt(reserves, thresholds.high)
        THEN [level |-> "high", score |-> Q(2, 10)]
    ELSE [level |-> "normal", score |-> Q(4, 10)]

\* The dict get_exchange_reserves returns for a reading (fed_pivot.py:109-114)
reserve_reading(reserves, cls) ==
    [exchange_reserves |-> reserves,
     reserve_level     |-> cls.level,
     reserve_score     |-> cls.score]

\* FedPivotModel.get_exchange_reserves.  onchain is what the on-chain
\* provider answers: [raises |-> TRUE] or the reserves (Optional).
FedPivot_get_exchange_reserves(onchain) ==
    IF onchain.raises
    THEN [exchange_reserves |-> None, error |-> "onchain failure"]
    ELSE IF onchain.reserves = None
    THEN [exchange_reserves |-> None, error |-> "No reserve data available"]
    ELSE reserve_reading(onchain.reserves,
             classify_reserves(Val(onchain.reserves), EXCHANGE_RESERVE_THRESHOLDS))

\* The score of a missing policy-rate reading (fed_pivot.py:132-133)
\* (a faulty variant scoring the missing reading as neutral; C6 rejects it)
missing_rate_neutral == Q(5, 10)
missing_rate_score == Zero

\* Base score from the rate level (fed_pivot.py:141-149)
rate_base_score(current_rate, thresholds) ==
    IF QLt(current_rate, thresholds.ultra_low) THEN Q(8, 10)
    ELSE IF QLt(current_rate, thresholds.low) THEN Q(5, 10)
    ELSE IF QLt(current_rate, thresholds.neutral) THEN Q(3, 10)
    ELSE Q(1, 10)

\* Pivot adjustments (fed_pivot.py:152-163)
\* (a faulty variant without the branch for ongoing cuts; C18 rejects it)
direction_multiplier_ignoring_trend(pivot_detected, pivot_direction, pivot_magnitude) ==
    IF pivot_detected
    THEN IF pivot_direction = "cutting"
         THEN QAdd(Q(15, 10), QMin(Q(5, 10), QDiv(pivot_magnitude, Q(2, 1))))
         ELSE IF pivot_direction = "hiking"
         THEN Q(3, 10)
         ELSE One
    ELSE One
direction_multiplier(pivot_detected, pivot_direction, pivot_magnitude) ==
    IF pivot_detected
    THEN IF pivot_direction = "cutting"
         THEN QAdd(Q(15, 10), QMin(Q(5, 10), QDiv(pivot_magnitude, Q(2, 1))))
         ELSE IF pivot_direction = "hiking"
         THEN Q(3, 10)
         ELSE One
    ELSE IF pivot_direction = "cutting"
         THEN Q(12, 10)
         ELSE One

\* score = min(1.0, base_score * direction_multiplier) (fed_pivot.py:166)
\* (a faulty variant without the min; C1 rejects it)
fed_score_unclamped(base_score, multiplier) ==
    QMul(base_score, multiplier)
clamp_fed_score(base_score, multiplier) ==
    QMin(One, QMul(base_score, multiplier))

\* FedPivotModel.calculate_fed_score
calculate_fed_score(fed_data) ==
    IF Get(fed_data, "fed_funds_rate", None) = None
    THEN missing_rate_score
    ELSE clamp_fed_score(
             rate_base_score(Val(fed_data.fed_funds_rate), FED_RATE_THRESHOLDS),
             direction_multiplier(Get(fed_data, "pivot_detected", FALSE),
                                  Get(fed_data, "pivot_direction", "neutral"),
                                  Get(fed_data, "pivot_magnitude", Zero)))

\* The strength tiers shared by both calculate_signal_strength methods
\* (fed_pivot.py:198-205, m2_miner.py:220-227).
\* (a faulty variant with exclusive boundaries; C15 rejects it)
strength_tier_exclusive(combined_score) ==
    IF QGt(combined_score, Q(8, 10)) THEN "very_strong"
    ELSE IF QGt(combined_score, Q(6, 10)) THEN "strong"
    ELSE IF QGt(combined_score, Q(4, 10)) THEN "moderate"
    ELSE "weak"
strength_tier(combined_score) ==
    IF QGe(combined_score, Q(8, 10)) THEN "very_strong"
    ELSE IF QGe(combined_score, Q(6, 10)) THEN "strong"
    ELSE IF QGe(combined_score, Q(4, 10)) THEN "moderate"
    ELSE "weak"

\* buy_signal = combined_score >= threshold (fed_pivot.py:195, m2_miner.py:217)
\* (a faulty variant with a strict comparison; C4 rejects it)
exceeds_threshold(combined_score, threshold) == QGt(combined_score, threshold)
meets_threshold(combined_score, threshold) == QGe(combined_score, threshold)

\* combined_score = (fed_score * 0.6) + (reserve_score * 0.4) (fed_pivot.py:191)
\* (a faulty variant that drops the Fed leg; C13 rejects it)
combined_score_of_reserves_only(fed_score, reserve_score) ==
    QMul(reserve_score, Q(4, 10))
FedPivot_combined_score(fed_score, reserve_score) ==
    QAdd(QMul(fed_score, Q(6, 10)), QMul(reserve_score, Q(4, 10)))

\* The threshold test, the tiers and the returned dict (fed_pivot.py:193-214)
FedPivot_signals(fed_score, reserve_score, combined_score, threshold) ==
    [fed_score       |-> fed_score,
     reserve_score   |-> reserve_score,
     combined_score  |-> combined_score,
     buy_signal      |-> meets_threshold(combined_score, threshold),
     signal_strength |-> strength_tier(combined_score),
     threshold       |-> threshold]

\* The individual scores combined (fed_pivot.py:186-195)
FedPivot_score(fed_score, reserve_score, threshold) ==
    FedPivot_signals(fed_score, reserve_score,
                     FedPivot_combined_score(fed_score, reserve_score), threshold)

\* FedPivotModel.calculate_signal_strength
FedPivot_calculate_signal_strength(s, fed_data, reserve_data) ==
    FedPivot_score(calculate_fed_score(fed_data),
                   Get(reserve_data, "reserve_score", Zero),
                   get_signal_threshold(s, 1))

\* The early return of both generate_trade_plan methods.
\* (a faulty variant that values and schedules a position of nothing; C20 rejects it)
no_action_plan_with_schedule ==
    [action |-> "no_action", reason |-> "Signal threshold not met", position_size |-> Zero,
     position_value |-> Zero, entry_plan |-> <<>>]
no_action_plan ==
    [action |-> "no_action", reason |-> "Signal threshold not met", position_size |-> Zero]

\* excess_signal = max(0, combined_score - threshold) (fed_pivot.py:245, m2_miner.py:273)
excess_signal(combined_score, threshold) == QMax(Zero, QSub(combined_score, threshold))

\* max_excess = 1.0 - threshold (fed_pivot.py:246, m2_miner.py:274)
max_excess(threshold) == QSub(One, threshold)

\* Linear scaling above the threshold (fed_pivot.py:248-251)
\* (a faulty variant that never scales the base size; C14 rejects it)
FedPivot_size_multiplier_flat(combined_score, threshold) == One
FedPivot_size_multiplier(combined_score, threshold) ==
    IF QGt(max_excess(threshold), Zero)
    THEN QAdd(One, QMul(QDiv(excess_signal(combined_score, threshold),
                             max_excess(threshold)),
                        Q(2, 1)))
    ELSE One

\* position_size = min(max_size, base_size * size_multiplier)
\* (fed_pivot.py:253, m2_miner.py:281)
\* (a faulty variant without the cap; C2 rejects it)
uncapped_position_size(max_size, base_size, size_multiplier) ==
    QMul(base_size, size_multiplier)
cap_position_size(max_size, base_size, size_multiplier) ==
    QMin(max_size, QMul(base_size, size_multiplier))

\* base_size and max_size read from the position limits (fed_pivot.py:237-241,
\* m2_miner.py:265-269) and the size computed from them.
position_size_within(position_limits, size_multiplier) ==
    cap_position_size(position_limits.max, position_limits.base, size_multiplier)

\* One tranche of an entry plan: value = position_value * percentage
\* (fed_pivot.py:258-261, m2_miner.py:286-289).
\* (a faulty variant valuing the tranche at the bare fraction; C3 rejects it)
tranche_of_portfolio_share(timing, percentage, position_value) ==
    [timing |-> timing, percentage |-> percentage, value |-> position_value]
tranche(timing, percentage, position_value) ==
    [timing |-> timing, percentage |-> percentage, value |-> QMul(position_value, percentage)]

\* The plan dict of a buy (fed_pivot.py:256-278; the rationale string and the
\* advisory exit_conditions list are constant text and left out).
FedPivot_buy_plan(position_size, position_value) ==
    [action         |-> "buy",
     position_size  |-> position_size,
     position_value |-> position_value,
     entry_strategy |-> "scaled_72h",
     entry_plan     |-> << tranche("immediate", Q(40, 100), position_value),
                           tranche("24_hours",  Q(30, 100), position_value),
                           tranche("48_hours",  Q(20, 100), position_value),
                           tranche("72_hours",  Q(10, 100), position_value) >>,
     hold_period    |-> "minimum_90_days"]

\* position_value = portfolio_value * position_size (fed_pivot.py:254)
FedPivot_plan_of_size(position_size, pv) ==
    FedPivot_buy_plan(position_size, QMul(Q(pv, 1), position_size))

\* FedPivotModel.generate_trade_plan
FedPivot_generate_trade_plan(s, signal_data, pv) ==
    IF ~Get(signal_data, "buy_signal", FALSE)
    THEN no_action_plan
    ELSE FedPivot_plan_of_size(
             position_size_within(
                 get_position_limits(s),
                 FedPivot_size_multiplier(signal_data.combined_score,
                                          signal_data.threshold)),
             pv)

\* The result dict of analyze (fed_pivot.py:301-320; timestamp left out)
FedPivot_result(s, fed_data, reserve_data, signals, pv) ==
    [scenario      |-> 1,
     scenario_name |-> "Fed Pivot + Low Exchange Reserves",
     data          |-> [fed_policy |-> fed_data, exchange_reserves |-> reserve_data],
     signals       |-> signals,
     trade_plan    |-> FedPivot_generate_trade_plan(s, signals, pv)]

\* The signals calculated from the fetched data (fed_pivot.py:298-299)
FedPivot_analyze_data(s, fed_data, reserve_data, pv) ==
    FedPivot_result(s, fed_data, reserve_data,
                    FedPivot_calculate_signal_strength(s, fed_data, reserve_data), pv)

\* FedPivotModel.analyze
FedPivot_analyze(s, fred, onchain, pv) ==
    FedPivot_analyze_data(s, FedPivot_get_fed_data(fred),
                          FedPivot_get_exchange_reserves(onchain), pv)

-----------------------------------------------------------------------------
(* models/m2_miner.py : Scenario 2, M2 expansion + miner capitulation *)

\* The M2 growth bucket scan (m2_miner.py:79-95)
classify_m2_growth(m2_growth, thresholds) ==
    IF QGe(m2_growth, thresholds.extreme_expansion)
        THEN [level |-> "extreme_expansion", score |-> One]
    ELSE IF QGe(m2_growth, thresholds.strong_expansion)
        THEN [level |-> "strong_expansion", score |-> Q(8, 10)]
    ELSE IF QGe(m2_growth, thresholds.normal_expansion)
        THEN [level |-> "normal_expansion", score |-> Q(5, 10)]
    ELSE IF QGe(m2_growth, thresholds.contraction)
        THEN [level |-> "slow_growth", score |-> Q(2, 10)]
    ELSE [level |-> "contraction", score |-> Zero]

\* The dict get_m2_data returns for a reading (m2_miner.py:97-104)
m2_reading(m2_growth, m2_acceleration, cls) ==
    [m2_growth_rate  |-> m2_growth,
     m2_acceleration |-> m2_acceleration,
     growth_level    |-> cls.level,
     growth_score    |-> cls.score]

\* M2MinerModel.get_m2_data.  fred is [raises |-> TRUE] or the growth rate
\* (Optional) of get_m2_growth_rate together with the acceleration (Optional)
\* the method derives from the M2 data frame (m2_miner.py:60-76); m2_velocity
\* (always None) and timestamp are left out.
M2Miner_get_m2_data(fred) ==
    IF fred.raises
    THEN [m2_growth_rate |-> None, error |-> "fred failure"]
    ELSE IF fred.m2_growth = None
    THEN [m2_growth_rate |-> None, error |-> "M2 data unavailable"]
    ELSE m2_reading(fred.m2_growth, fred.m2_acceleration,
                    classify_m2_growth(Val(fred.m2_growth), M2_THRESHOLDS))

\* Score based on hash ribbon signal (m2_miner.py:129-138)
classify_hash_ribbon(signal) ==
    IF signal = "buy"
        THEN [ribbon_score |-> One, signal_strength |-> "strong_buy"]
    ELSE IF signal = "sell"
        THEN [ribbon_score |-> Zero, signal_strength |-> "strong_sell"]
    ELSE [ribbon_score |-> Q(4, 10), signal_strength |-> "neutral"]

\* Bonus for post-capitulation recovery (m2_miner.py:141)
capitulation_bonus(miner_capitulation) == IF miner_capitulation THEN Q(3, 10) ELSE Zero

\* total_score and the returned dict (m2_miner.py:143-154)
hash_ribbon_reading(signal, miner_capitulation, cls) ==
    [hash_ribbon_signal |-> Some(signal),
     miner_capitulation |-> miner_capitulation,
     ribbon_score       |-> QMin(One, QAdd(cls.ribbon_score,
                                           capitulation_bonus(miner_capitulation))),
     signal_strength    |-> cls.signal_strength]

\* M2MinerModel.get_hash_ribbon_data.  onchain is [raises |-> TRUE] or the
\* dict of get_hash_ribbon_signal (an empty record when the provider has
\* nothing); ma_30, ma_60, trend and timestamp are passed through unread and
\* left out.
M2Miner_get_hash_ribbon_data(onchain) ==
    IF onchain.raises
    THEN [hash_ribbon_signal |-> None, error |-> "onchain failure"]
    ELSE IF DOMAIN onchain.hash_data = {}
    THEN [hash_ribbon_signal |-> None, error |-> "Hash data unavailable"]
    ELSE hash_ribbon_reading(
             Get(onchain.hash_data, "signal", "neutral"),
             Get(onchain.hash_data, "miner_capitulation", FALSE),
             classify_hash_ribbon(Get(onchain.hash_data, "signal", "neutral")))

\* Acceleration adjustment (m2_miner.py:180-183); acceleration is Optional
\* (a faulty variant without the bounds of the bonus; C19 rejects it)
accel_bonus_unbounded(acceleration) ==
    IF acceleration # None
    THEN QMul(Val(acceleration), Q(5, 1))
    ELSE Zero
accel_bonus(acceleration) ==
    IF acceleration # None
    THEN QMin(Q(2, 10), QMax(Q(-2, 10), QMul(Val(acceleration), Q(5, 1))))
    ELSE Zero

\* velocity_adjustment = 0.0 (m2_miner.py:187)
velocity_adjustment == Zero

\* final_score = min(1.0, max(0.0, base_score + accel_bonus + velocity_adjustment))
\* (m2_miner.py:189)
final_m2_score(base_score, bonus) ==
    QMin(One, QMax(Zero, QAdd(QAdd(base_score, bonus), velocity_adjustment)))

\* M2MinerModel.calculate_m2_score
\* (a faulty variant that scores a missing growth reading from the other keys;
\* C23 rejects it)
calculate_m2_score_unguarded(m2_data) ==
    final_m2_score(Get(m2_data, "growth_score", Zero),
                   accel_bonus(Get(m2_data, "m2_acceleration", Some(Zero))))
calculate_m2_score(m2_data) ==
    IF Get(m2_data, "m2_growth_rate", None) = None
    THEN Zero
    ELSE final_m2_score(Get(m2_data, "growth_score", Zero),
                        accel_bonus(Get(m2_data, "m2_acceleration", Some(Zero))))

\* The extreme-M2 special case (m2_miner.py:230-231)
\* (a faulty variant firing from 0.5; C5 rejects it)
m2_override_at_half(m2_data, combined_score) ==
    /\ Get(m2_data, "growth_level", "") = "extreme_expansion"
    /\ QGe(combined_score, Q(5, 10))
m2_override(m2_data, combined_score) ==
    /\ Get(m2_data, "growth_level", "") = "extreme_expansion"
    /\ QGe(combined_score, Q(6, 10))

\* combined_score = (m2_score * 0.5) + (miner_score * 0.5) (m2_miner.py:213)
M2Miner_combined_score(m2_score, miner_score) ==
    QAdd(QMul(m2_score, Q(5, 10)), QMul(miner_score, Q(5, 10)))

\* The threshold test, the tiers, the override and the returned dict
\* (m2_miner.py:215-242); override is whether the special case fires.
M2Miner_signals(m2_score, miner_score, combined_score, threshold, override) ==
    [m2_score        |-> m2_score,
     miner_score     |-> miner_score,
     combined_score  |-> combined_score,
     buy_signal      |-> IF override THEN TRUE
                         ELSE meets_threshold(combined_score, threshold),
     signal_strength |-> IF override THEN "strong_m2_override"
                         ELSE strength_tier(combined_score),
     threshold       |-> threshold]

\* The combined score judged (m2_miner.py:215-233)
M2Miner_judge(m2_data, m2_score, miner_score, combined_score, threshold) ==
    M2Miner_signals(m2_score, miner_score, combined_score, threshold,
                    m2_override(m2_data, combined_score))

\* The individual scores combined (m2_miner.py:208-216)
M2Miner_score(m2_data, m2_score, miner_score, threshold) ==
    M2Miner_judge(m2_data, m2_score, miner_score,
                  M2Miner_combined_score(m2_score, miner_score), threshold)

\* M2MinerModel.calculate_signal_strength
M2Miner_calculate_signal_strength(s, m2_data, miner_data) ==
    M2Miner_score(m2_data,
                  calculate_m2_score(m2_data),
                  Get(miner_data, "ribbon_score", Zero),
                  get_signal_threshold(s, 2))

\* More aggressive sizing for the M2 scenario (m2_miner.py:276-279)
\* (a faulty variant sizing on the Scenario 1 curve; C21 rejects it)
M2Miner_size_multiplier_as_fed(combined_score, threshold) ==
    FedPivot_size_multiplier(combined_score, threshold)
M2Miner_size_multiplier(combined_score, threshold) ==
    IF QGt(max_excess(threshold), Zero)
    THEN QAdd(Q(12, 10), QMul(QDiv(excess_signal(combined_score, threshold),
                                   max_excess(threshold)),
                              Q(25, 10)))
    ELSE Q(12, 10)

\* The plan dict of an accumulation (m2_miner.py:284-307; rationale and
\* exit_conditions left out as in Scenario 1).
M2Miner_accumulate_plan(position_size, position_value) ==
    [action         |-> "accumulate",
     position_size  |-> position_size,
     position_value |-> position_value,
     entry_strategy |-> "accumulate_30_days",
     entry_plan     |-> << tranche("week_1", Q(30, 100), position_value),
                           tranche("week_2", Q(25, 100), position_value),
                           tranche("week_3", Q(25, 100), position_value),
                           tranche("week_4", Q(20, 100), position_value) >>,
     hold_period    |-> "minimum_180_days"]

\* position_value = portfolio_value * position_size (m2_miner.py:282)
M2Miner_plan_of_size(position_size, pv) ==
    M2Miner_accumulate_plan(position_size, QMul(Q(pv, 1), position_size))

\* M2MinerModel.generate_trade_plan
M2Miner_generate_trade_plan(s, signal_data, pv) ==
    IF ~Get(signal_data, "buy_signal", FALSE)
    THEN no_action_plan
    ELSE M2Miner_plan_of_size(
             position_size_within(
                 get_position_limits(s),
                 M2Miner_size_multiplier(signal_data.combined_score,
                                         signal_data.threshold)),
             pv)

\* The result dict of analyze (m2_miner.py:330-349; timestamp left out)
M2Miner_result(s, m2_data, miner_data, signals, pv) ==
    [scenario      |-> 2,
     scenario_name |-> "M2 Expansion + Miner Capitulation",
     data          |-> [m2_money_supply |-> m2_data, miner_metrics |-> miner_data],
     signals       |-> signals,
     trade_plan    |-> M2Miner_generate_trade_plan(s, signals, pv)]

\* The signals calculated from the fetched data (m2_miner.py:327-328)
M2Miner_analyze_data(s, m2_data, miner_data, pv) ==
    M2Miner_result(s, m2_data, miner_data,
                   M2Miner_calculate_signal_strength(s, m2_data, miner_data), pv)

\* M2MinerModel.analyze
M2Miner_analyze(s, fred, onchain, pv) ==
    M2Miner_analyze_data(s, M2Miner_get_m2_data(fred),
                         M2Miner_get_hash_ribbon_data(onchain), pv)

-----------------------------------------------------------------------------
(* core.py : BitcoinMacroModel *)

\* self.scenarios, in insertion order (core.py:52-55)
scenarios == <<1, 2>>

\* model.analyze of the scenario's model on what its providers answer.
\* world.analyze_raises stands for analyze itself raising (the provider stack
\* failing outside the models' own try blocks, or a mocked analyze).
analyze(s, scenario, world, pv) ==
    IF scenario = 1
    THEN FedPivot_analyze(s, world.fred, world.onchain, pv)
    ELSE M2Miner_analyze(s, world.fred, world.onchain, pv)

\* scenario in self.scenarios (core.py:75)
registered(scenario) == scenario \in {scenarios[i] : i \in DOMAIN scenarios}

\* raise ValueError(f"Unknown scenario: ...") (core.py:76)
\* (a faulty variant answering with an error result; C11 rejects it)
unknown_scenario_as_result(scenario) ==
    [raised |-> FALSE,
     value  |-> [error   |-> "ValueError: Unknown scenario",
                 signals |-> [buy_signal |-> FALSE, combined_score |-> Zero]]]
unknown_scenario(scenario) ==
    [raised |-> TRUE, exception |-> "ValueError: Unknown scenario"]

\* The scenario models run_analysis calls analyze on: none when the id is
\* rejected at core.py:75-76, else the registered one (core.py:80-84).
run_analysis_invokes(scenario) ==
    IF ~registered(scenario) THEN <<>> ELSE <<scenario>>

\* BitcoinMacroModel.run_analysis: an outcome is [raised |-> TRUE, exception]
\* or [raised |-> FALSE, value]; the except clause logs and re-raises.
run_analysis(s, scenario, world, pv) ==
    IF ~registered(scenario)
    THEN unknown_scenario(scenario)
    ELSE IF world.analyze_raises
    THEN [raised |-> TRUE, exception |-> "Exception: analysis failed"]
    ELSE LET result == analyze(s, scenario, world, pv)
         IN  [raised |-> FALSE,
              value  |-> [result EXCEPT !.scenario = scenario]
                             @@ [portfolio_value |-> pv]]

scenario_key(scenario_id) == IF scenario_id = 1 THEN "scenario_1" ELSE "scenario_2"

\* The entry get_all_signals records for a scenario whose analysis raised.
error_entry(exception) ==
    [error |-> exception, signals |-> [buy_signal |-> FALSE, combined_score |-> Zero]]

\* The try/except of get_all_signals (core.py:113-121): the result, or the
\* error entry, is stored under the scenario's key.  The dict is kept as the
\* sequence of its (key, result) items in insertion order.
\* (a faulty variant whose except branch starts the dict afresh; C7 rejects it)
record_outcome_losing_results(results, scenario_id, outcome) ==
    IF outcome.raised
    THEN << [key |-> scenario_key(scenario_id), result |-> error_entry(outcome.exception)] >>
    ELSE Append(results, [key |-> scenario_key(scenario_id), result |-> outcome.value])
record_outcome(results, scenario_id, outcome) ==
    Append(results,
           [key    |-> scenario_key(scenario_id),
            result |-> IF outcome.raised
                       THEN error_entry(outcome.exception)
                       ELSE outcome.value])

\* The for loop of get_all_signals, folded over the scenario ids still to visit.
RECURSIVE get_all_signals_loop(_, _, _, _, _)
get_all_signals_loop(s, ids, worlds, pv, results) ==
    IF ids = <<>>
    THEN results
    ELSE LET scenario_id == Head(ids)
             outcome == run_analysis(s, scenario_id, worlds[scenario_id], pv)
         IN  get_all_signals_loop(s, Tail(ids), worlds, pv,
                 record_outcome(results, scenario_id, outcome))

\* BitcoinMacroModel.get_all_signals
get_all_signals(s, worlds, pv) ==
    get_all_signals_loop(s, scenarios, worlds, pv, <<>>)

\* The sentinel of get_strongest_signal (core.py:149-152)
\* (a faulty variant without the error field; C9 rejects it)
no_valid_signals_without_error ==
    [signals |-> [buy_signal |-> FALSE, combined_score |-> Zero]]
no_valid_signals ==
    [signals |-> [buy_signal |-> FALSE, combined_score |-> Zero],
     error   |-> "No valid signals available"]

\* The for loop of get_strongest_signal over all_signals.items(); acc holds
\* the locals strongest (Optional) and max_score.
RECURSIVE strongest_loop(_, _)
strongest_loop(items, acc) ==
    IF items = <<>>
    THEN acc
    ELSE LET result == Head(items).result
             take == /\ "error" \notin DOMAIN result
                     /\ QGt(result.signals.combined_score, acc.max_score)
         IN  strongest_loop(Tail(items),
                 IF take
                 THEN [strongest |-> Some(result),
                       max_score |-> result.signals.combined_score]
                 ELSE acc)

\* BitcoinMacroModel.get_strongest_signal, from the dict get_all_signals returned
get_strongest_signal(signals) ==
    LET acc == strongest_loop(signals, [strongest |-> None, max_score |-> Zero])
    IN  IF acc.strongest = None THEN no_valid_signals ELSE Val(acc.strongest)

\* The status reduction of FedPivotModel.health_check and
\* M2MinerModel.health_check over the provider statuses (fred, crypto, onchain).
\* (a faulty variant in which an error yields to any other trouble; C22 rejects it)
model_status_error_last(statuses) ==
    IF \A i \in DOMAIN statuses : statuses[i] = "healthy" THEN "healthy"
    ELSE IF \A i \in DOMAIN statuses : statuses[i] \in {"healthy", "error"} THEN "error"
    ELSE "degraded"
model_status(statuses) ==
    IF \A i \in DOMAIN statuses : statuses[i] = "healthy" THEN "healthy"
    ELSE IF \E i \in DOMAIN statuses : statuses[i] = "error" THEN "error"
    ELSE "degraded"

\* A scenario model's health_check: probe is [raises |-> TRUE] when a provider's
\* health_check raises, else the three provider statuses.
model_health_check(scenario, probe) ==
    [scenario  |-> scenario,
     providers |-> probe.providers,
     status    |-> model_status(probe.providers)]

\* The for loop of BitcoinMacroModel.health_check over self.scenarios.items()
RECURSIVE health_check_loop(_, _, _)
health_check_loop(ids, probes, h) ==
    IF ids = <<>>
    THEN h
    ELSE LET scenario_id == Head(ids)
             probe == probes[scenario_id]
             model_health == model_health_check(scenario_id, probe)
             component == IF probe.raises
                          THEN [status |-> "error", error |-> "health check failed"]
                          ELSE model_health
             overall == IF probe.raises THEN "error"
                        ELSE IF model_health.status # "healthy" THEN "degraded"
                        ELSE h.overall_status
         IN  health_check_loop(Tail(ids), probes,
                 [overall_status |-> overall,
                  components |-> Append(h.components,
                                    [key |-> scenario_key(scenario_id),
                                     component |-> component])])

\* BitcoinMacroModel.health_check
health_check(probes) ==
    health_check_loop(scenarios, probes, [overall_status |-> "healthy", components |-> <<>>])

-----------------------------------------------------------------------------
(* Inputs: configuration and what the data providers can answer *)

\* RISK_PROFILE comes from the environment (settings.py:80); "turbo" stands
\* for any name that is not a key of POSITION_LIMITS.
RiskProfiles == {"conservative", "moderate", "aggressive", "turbo"}

\* SIGNAL_THRESHOLDS as constructed, and two reconfigured tables.
ThresholdConfigs ==
    {SIGNAL_THRESHOLDS,
     [scenario_1 |-> Q(50, 100), scenario_2 |-> Q(60, 100)],
     [scenario_1 |-> One, scenario_2 |-> One]}

PortfolioValues == {50000 * k : k \in 1..MaxPortfolioSteps}

FedRates == {None} \cup {Some(Q(k, 2)) : k \in 0..MaxRateHalfPoints}

Directions == {"cutting", "hiking", "neutral"}

\* magnitude is abs(rate_change) (fred_client.py:182), never negative
Magnitudes == {Q(k, 2) : k \in 0..MaxMagnitudeHalves}

\* What detect_fed_pivot answers (fred_client.py:176-192), and answers of a
\* stubbed client that carry no magnitude (as the dict of test_basic.py:200-204):
\* get_fed_data and calculate_fed_score read every field with a default.
PivotInfos ==
    {[pivot_detected |-> FALSE, reason |-> "Insufficient data"]}
    \cup [pivot_detected : BOOLEAN, direction : Directions, magnitude : Magnitudes]
    \cup [pivot_detected : BOOLEAN, direction : Directions]

FredPolicyAnswers ==
    {[raises |-> TRUE]}
    \cup [raises : {FALSE}, current_rate : FedRates, pivot_info : PivotInfos]

ReserveLevels ==
    {2300000, 2350000, 2400000, 2500000, 2650000, 2800000, 2900000, 3000000, 3100000}

OnchainReserveAnswers ==
    {[raises |-> TRUE], [raises |-> FALSE, reserves |-> None]}
    \cup {[raises |-> FALSE, reserves |-> Some(Q(x, 1))] : x \in ReserveLevels}

GrowthRates == {Q(k, 100) : k \in {-1, 0, 3, 5, 10, 12, 15, 20}}

Accelerations == {None} \cup {Some(Q(k, 50)) : k \in (0 - MaxAccelSteps)..MaxAccelSteps}

FredM2Answers ==
    {[raises |-> TRUE], [raises |-> FALSE, m2_growth |-> None, m2_acceleration |-> None]}
    \cup {[raises |-> FALSE, m2_growth |-> Some(g), m2_acceleration |-> a] :
             g \in GrowthRates, a \in Accelerations}

HashSignals == {"buy", "sell", "neutral"}

OnchainHashAnswers ==
    {[raises |-> TRUE], [raises |-> FALSE, hash_data |-> <<>>]}
    \cup {[raises |-> FALSE, hash_data |-> [signal |-> sig, miner_capitulation |-> c]] :
             sig \in HashSignals, c \in BOOLEAN}

\* What the providers of one scenario answer during one analyze call.
Worlds(scenario) ==
    IF scenario = 1
    THEN [analyze_raises : {FALSE}, fred : FredPolicyAnswers, onchain : OnchainReserveAnswers]
    ELSE [analyze_raises : {FALSE}, fred : FredM2Answers, onchain : OnchainHashAnswers]

NoResult == [op |-> "none"]

\* No public operation has run yet.
Idle ==
    /\ op = "none"
    /\ fetched = <<>>
    /\ analysis = NoResult
    /\ all_signals = <<>>
    /\ strongest = NoResult
    /\ health = NoResult
    /\ request = NoResult
    /\ run_outcome = NoResult
    /\ invoked = <<>>
    /\ previous = NoResult

\* No retry wrapper is being called.
NoRetry == retry = NoResult

\* No SafetyManager, TradingConfig or AutomatedTrader exists.
NoTrader ==
    /\ safety = NoResult
    /\ checks = NoResult
    /\ config = NoResult
    /\ trader = NoResult
    /\ orders = <<>>
    /\ now = 0

Init ==
    /\ settings \in [RISK_PROFILE : RiskProfiles, SIGNAL_THRESHOLDS : ThresholdConfigs]
    /\ portfolio_value \in PortfolioValues
    /\ comparison = NoResult
    /\ NoRetry
    /\ NoTrader
    /\ Idle

-----------------------------------------------------------------------------
(* Scoring: one call of a scenario model's analyze *)

\* The Settings a scenario model holds once analyze has returned: analyze and
\* the methods it calls assign no attribute (fed_pivot.py:280-320,
\* m2_miner.py:309-349), so they are the ones it was called with.
\* (a faulty variant in which a call raises the model's own threshold to 1.0;
\* C12 rejects it)
settings_after_analyze_ratcheted(s) ==
    [s EXCEPT !.SIGNAL_THRESHOLDS = [scenario_1 |-> One, scenario_2 |-> One]]
settings_after_analyze(s) == s

FedPivotAnalyze ==
    /\ op = "none"
    /\ \E world \in Worlds(1) :
          /\ fetched' = (1 :> world)
          /\ analysis' = analyze(settings, 1, world, portfolio_value)
    /\ op' = "analyze"
    /\ settings' = settings_after_analyze(settings)
    /\ UNCHANGED <<portfolio_value, all_signals, strongest, health, request, run_outcome, invoked, previous, comparison,
                   retry, trader_vars>>

M2MinerAnalyze ==
    /\ op = "none"
    /\ \E world \in Worlds(2) :
          /\ fetched' = (2 :> world)
          /\ analysis' = analyze(settings, 2, world, portfolio_value)
    /\ op' = "analyze"
    /\ settings' = settings_after_analyze(settings)
    /\ UNCHANGED <<portfolio_value, all_signals, strongest, health, request, run_outcome, invoked, previous, comparison,
                   retry, trader_vars>>

\* A second analyze call of the same scenario model on the same indicator
\* snapshot and portfolio value.
AnalyzeAgain ==
    /\ op = "analyze"
    /\ previous' = analysis
    /\ analysis' = analyze(settings, analysis.scenario, fetched[analysis.scenario],
                           portfolio_value)
    /\ settings' = settings_after_analyze(settings)
    /\ op' = "analyze_again"
    /\ UNCHANGED <<portfolio_value, fetched, all_signals, strongest, health, request,
                   run_outcome, invoked, comparison,
                   retry, trader_vars>>

\* Hand-made indicator dicts, as the callers of calculate_signal_strength in
\* test_basic.py:196-217 pass them: any key may be there or not, whatever the
\* primary reading is.
DirectFedData ==
    [fed_funds_rate : {None, Some(Q(1, 2))}, pivot_detected : BOOLEAN,
     pivot_direction : {"cutting", "hiking"}, pivot_magnitude : {One}]
    \cup {[fed_funds_rate |-> None, pivot_detected |-> FALSE, error |-> "fred failure"]}

DirectReserveData ==
    {[exchange_reserves |-> Some(Q(2300000, 1)), reserve_score |-> One],
     [exchange_reserves |-> None, error |-> "No reserve data available"]}

DirectM2Data ==
    [m2_growth_rate : {None, Some(Q(12, 100))}, m2_acceleration : {None, Some(Q(3, 50))},
     growth_level : {"strong_expansion", "extreme_expansion"}, growth_score : {Q(8, 10), One}]
    \cup {[m2_growth_rate |-> None, error |-> "M2 data unavailable"]}

DirectMinerData ==
    {[hash_ribbon_signal |-> Some("buy"), ribbon_score |-> One],
     [hash_ribbon_signal |-> None, error |-> "Hash data unavailable"]}

\* calculate_signal_strength and then generate_trade_plan of the Scenario 1
\* model, called on hand-made dicts; no provider is asked.
FedPivotDirect ==
    /\ op = "none"
    /\ \E fed_data \in DirectFedData, reserve_data \in DirectReserveData :
          analysis' =
              [scenario   |-> 1,
               data       |-> [fed_policy |-> fed_data, exchange_reserves |-> reserve_data],
               signals    |-> FedPivot_calculate_signal_strength(settings, fed_data,
                                                                 reserve_data),
               trade_plan |-> FedPivot_generate_trade_plan(
                                  settings,
                                  FedPivot_calculate_signal_strength(settings, fed_data,
                                                                     reserve_data),
                                  portfolio_value)]
    /\ op' = "direct"
    /\ UNCHANGED <<settings, portfolio_value, fetched, all_signals, strongest, health,
                   request, run_outcome, invoked, previous, comparison,
                   retry, trader_vars>>

\* The same two calls of the Scenario 2 model.
M2MinerDirect ==
    /\ op = "none"
    /\ \E m2_data \in DirectM2Data, miner_data \in DirectMinerData :
          analysis' =
              [scenario   |-> 2,
               data       |-> [m2_money_supply |-> m2_data, miner_metrics |-> miner_data],
               signals    |-> M2Miner_calculate_signal_strength(settings, m2_data,
                                                                miner_data),
               trade_plan |-> M2Miner_generate_trade_plan(
                                  settings,
                                  M2Miner_calculate_signal_strength(settings, m2_data,
                                                                    miner_data),
                                  portfolio_value)]
    /\ op' = "direct"
    /\ UNCHANGED <<settings, portfolio_value, fetched, all_signals, strongest, health,
                   request, run_outcome, invoked, previous, comparison,
                   retry, trader_vars>>

Next ==
    \/ FedPivotAnalyze
    \/ M2MinerAnalyze
    \/ AnalyzeAgain
    \/ FedPivotDirect
    \/ M2MinerDirect

Spec == Init /\ [][Next]_vars

-----------------------------------------------------------------------------
(* Orchestration: one call of get_all_signals, get_strongest_signal or       *)
(* health_check.  The providers answer from a sample of the grids above that *)
(* covers a failing analysis, zero scores, equal scores and buy signals.     *)

OrchFedPolicyAnswers ==
    {[raises |-> TRUE]}
    \cup [raises : {FALSE},
          current_rate : {None, Some(Q(1, 2)), Some(One)},
          pivot_info : {[pivot_detected |-> FALSE, reason |-> "Insufficient data"],
                        [pivot_detected |-> TRUE, direction |-> "cutting",
                         magnitude |-> One]}]

OrchReserveAnswers ==
    [raises : {FALSE},
     reserves : {None, Some(Q(2300000, 1)), Some(Q(2650000, 1)), Some(Q(3100000, 1))}]

OrchM2Answers ==
    {[raises |-> FALSE, m2_growth |-> None, m2_acceleration |-> None],
     [raises |-> FALSE, m2_growth |-> Some(Q(12, 100)), m2_acceleration |-> Some(Q(-1, 50))],
     [raises |-> FALSE, m2_growth |-> Some(Q(12, 100)), m2_acceleration |-> Some(Q(-1, 100))]}
    \cup [raises : {FALSE},
          m2_growth : {Some(Q(3, 100)), Some(Q(12, 100)), Some(Q(20, 100))},
          m2_acceleration : {None}]

OrchHashAnswers ==
    [raises : {FALSE},
     hash_data : {<<>>,
                  [signal |-> "neutral", miner_capitulation |-> FALSE],
                  [signal |-> "neutral", miner_capitulation |-> TRUE],
                  [signal |-> "buy", miner_capitulation |-> TRUE],
                  [signal |-> "sell", miner_capitulation |-> FALSE]}]

OrchWorlds(scenario) ==
    {[analyze_raises |-> TRUE]}
    \cup (IF scenario = 1
          THEN [analyze_raises : {FALSE}, fred : OrchFedPolicyAnswers,
                onchain : OrchReserveAnswers]
          ELSE [analyze_raises : {FALSE}, fred : OrchM2Answers,
                onchain : OrchHashAnswers])

\* What a scenario model's three providers report to health_check, in the
\* order fred, crypto, onchain (fred_client.py:194-215, crypto_data.py:19-21,
\* 87-104, 181-198), or the health check raising.
\* Scenario ids a caller can pass to run_analysis
ScenarioIds == (0 - 1)..MaxScenarioId

HealthProbes ==
    {[raises |-> TRUE]}
    \cup [raises : {FALSE},
          providers : {"healthy", "degraded", "error"}
                      \X {"healthy", "degraded", "error"}
                      \X {"healthy", "error", "unknown"}]

GetAllSignals ==
    /\ op = "none"
    /\ \E w1 \in OrchWorlds(1), w2 \in OrchWorlds(2) :
          /\ fetched' = <<w1, w2>>
          /\ all_signals' = get_all_signals(settings, <<w1, w2>>, portfolio_value)
    /\ op' = "get_all_signals"
    /\ UNCHANGED <<settings, portfolio_value, analysis, strongest, health, request, run_outcome, invoked, previous, comparison,
                   retry, trader_vars>>

GetStrongestSignal ==
    /\ op = "none"
    /\ \E w1 \in OrchWorlds(1), w2 \in OrchWorlds(2) :
          /\ fetched' = <<w1, w2>>
          /\ all_signals' = get_all_signals(settings, <<w1, w2>>, portfolio_value)
    /\ strongest' = get_strongest_signal(all_signals')
    /\ op' = "get_strongest_signal"
    /\ UNCHANGED <<settings, portfolio_value, analysis, health, request, run_outcome, invoked, previous, comparison,
                   retry, trader_vars>>

HealthCheck ==
    /\ op = "none"
    /\ \E p1 \in HealthProbes, p2 \in HealthProbes :
          /\ fetched' = <<p1, p2>>
          /\ health' = health_check(<<p1, p2>>)
    /\ op' = "health_check"
    /\ UNCHANGED <<settings, portfolio_value, analysis, all_signals, strongest, request, run_outcome, invoked, previous, comparison,
                   retry, trader_vars>>

\* One run_analysis call with any scenario id; the providers of a registered
\* scenario answer, nothing is there to answer for any other id.
RunAnalysis ==
    /\ op = "none"
    /\ \E scenario \in ScenarioIds :
          \E world \in (IF registered(scenario) THEN OrchWorlds(scenario) ELSE {NoResult}) :
              /\ request' = [scenario |-> scenario]
              /\ fetched' = IF registered(scenario) THEN (scenario :> world) ELSE <<>>
              /\ run_outcome' = run_analysis(settings, scenario, world, portfolio_value)
              /\ invoked' = run_analysis_invokes(scenario)
    /\ op' = "run_analysis"
    /\ UNCHANGED <<settings, portfolio_value, analysis, all_signals, strongest, health, previous, comparison,
                   retry, trader_vars>>

OrchNext == GetAllSignals \/ GetStrongestSignal \/ HealthCheck \/ RunAnalysis

\* BitcoinMacroModel.__init__ builds both scenario models, each with a fresh
\* Settings(): the thresholds are the constructed ones.
OrchInit == Init /\ settings.SIGNAL_THRESHOLDS = SIGNAL_THRESHOLDS

OrchSpec == OrchInit /\ [][OrchNext]_vars

-----------------------------------------------------------------------------
(* The Scenario 1 weighting alone: two rate sub-scores against one reserve score *)

\* Sub-scores in [0, 1] on a grid.
SubScores == {Q(k, MaxScoreSteps) : k \in 0..MaxScoreSteps}

\* The weighted sum of fed_pivot.py:191 applied to both rate sub-scores.
CompareCombined ==
    /\ op = "none"
    /\ comparison' = [fed_score_1 |-> comparison.fed_score_1,
                      fed_score_2 |-> comparison.fed_score_2,
                      reserve_score |-> comparison.reserve_score,
                      combined_1 |-> FedPivot_combined_score(comparison.fed_score_1,
                                                             comparison.reserve_score),
                      combined_2 |-> FedPivot_combined_score(comparison.fed_score_2,
                                                             comparison.reserve_score)]
    /\ op' = "combine"
    /\ UNCHANGED <<settings, portfolio_value, fetched, analysis, all_signals, strongest,
                   health, request, run_outcome, invoked, previous,
                   retry, trader_vars>>

CombineNext == CompareCombined

CombineInit ==
    /\ settings = [RISK_PROFILE |-> "conservative", SIGNAL_THRESHOLDS |-> SIGNAL_THRESHOLDS]
    /\ portfolio_value = 100000
    /\ comparison \in [fed_score_1 : SubScores, fed_score_2 : SubScores,
                        reserve_score : SubScores]
    /\ NoRetry
    /\ NoTrader
    /\ Idle

CombineSpec == CombineInit /\ [][CombineNext]_vars

-----------------------------------------------------------------------------
(* Properties of the scoring pipeline, checked under Spec *)

InUnitInterval(q) == QGe(q, Zero) /\ QLe(q, One)

\* The threshold the configuration holds for a scenario.
ConfiguredThreshold(scenario) ==
    IF scenario = 1
    THEN settings.SIGNAL_THRESHOLDS.scenario_1
    ELSE settings.SIGNAL_THRESHOLDS.scenario_2

\* max_size of the active risk profile, an unknown profile counting as moderate.
ActiveMaxSize ==
    CASE settings.RISK_PROFILE = "conservative" -> Q(10, 100)
      [] settings.RISK_PROFILE = "aggressive"   -> Q(25, 100)
      [] OTHER                                  -> Q(15, 100)

RECURSIVE QSum(_)
QSum(seq) == IF seq = <<>> THEN Zero ELSE QAdd(Head(seq), QSum(Tail(seq)))

\* C1: for every indicator snapshot, each sub-score (fed_score, reserve_score,
\* m2_score, miner_score) and each scenario's combined_score lies in [0,1].
C1_ScoresInUnitInterval ==
    op = "analyze" =>
        /\ InUnitInterval(analysis.signals.combined_score)
        /\ analysis.scenario = 1 =>
              /\ InUnitInterval(analysis.signals.fed_score)
              /\ InUnitInterval(analysis.signals.reserve_score)
        /\ analysis.scenario = 2 =>
              /\ InUnitInterval(analysis.signals.m2_score)
              /\ InUnitInterval(analysis.signals.miner_score)

\* C1 witness: a detected cut of magnitude 1.0 at rate 0.5 (0.8 * 2.0 = 1.6
\* before the clamp) with critically low reserves: both sub-scores and the
\* combined score sit on the upper end of the interval.
C1_Witness ==
    /\ op = "analyze"
    /\ analysis.scenario = 1
    /\ "error" \notin DOMAIN analysis.data.fed_policy
    /\ analysis.data.fed_policy.fed_funds_rate = Some(Q(1, 2))
    /\ analysis.data.fed_policy.pivot_detected
    /\ analysis.data.fed_policy.pivot_direction = "cutting"
    /\ analysis.data.fed_policy.pivot_magnitude = One
    /\ analysis.signals.fed_score = One
    /\ analysis.signals.combined_score = One

\* C2: every plan generated with buy_signal true has position_size <= max_size
\* of the active risk profile (conservative, moderate, aggressive, or an
\* unknown profile falling back to moderate).
C2_PositionSizeWithinMax ==
    (op = "analyze" /\ analysis.signals.buy_signal) =>
        QLe(analysis.trade_plan.position_size, ActiveMaxSize)

\* C2 witness: an unknown profile, Scenario 2 at combined score 1.0, where
\* base * multiplier = 0.05 * 3.7 exceeds the moderate maximum 0.15.
C2_Witness ==
    /\ op = "analyze"
    /\ analysis.scenario = 2
    /\ settings.RISK_PROFILE = "turbo"
    /\ settings.SIGNAL_THRESHOLDS = SIGNAL_THRESHOLDS
    /\ analysis.signals.combined_score = One
    /\ analysis.signals.buy_signal
    /\ analysis.trade_plan.position_size = Q(15, 100)

ExpectedSchedule(scenario) ==
    IF scenario = 1
    THEN << [timing |-> "immediate", percentage |-> Q(40, 100)],
            [timing |-> "24_hours",  percentage |-> Q(30, 100)],
            [timing |-> "48_hours",  percentage |-> Q(20, 100)],
            [timing |-> "72_hours",  percentage |-> Q(10, 100)] >>
    ELSE << [timing |-> "week_1", percentage |-> Q(30, 100)],
            [timing |-> "week_2", percentage |-> Q(25, 100)],
            [timing |-> "week_3", percentage |-> Q(25, 100)],
            [timing |-> "week_4", percentage |-> Q(20, 100)] >>

\* C3: every buy/accumulate plan carries exactly four ordered tranches
\* (Scenario 1: 0.40/0.30/0.20/0.10 at immediate/24h/48h/72h; Scenario 2:
\* 0.30/0.25/0.25/0.20 at week_1..week_4); the fractions sum to 1.0, each
\* value is position_value * fraction, and the values sum to position_value.
C3_FourTranches ==
    (op = "analyze" /\ analysis.trade_plan.action \in {"buy", "accumulate"}) =>
        LET plan == analysis.trade_plan
            entry_plan == plan.entry_plan
            expected == ExpectedSchedule(analysis.scenario)
        IN  /\ Len(entry_plan) = 4
            /\ \A i \in 1..4 :
                  /\ entry_plan[i].timing = expected[i].timing
                  /\ entry_plan[i].percentage = expected[i].percentage
                  /\ entry_plan[i].value = QMul(plan.position_value, expected[i].percentage)
            /\ QSum([i \in 1..4 |-> entry_plan[i].percentage]) = One
            /\ QSum([i \in 1..4 |-> entry_plan[i].value]) = plan.position_value

\* C3 witness: a Scenario 2 accumulate plan worth 15000 (0.15 of 100000)
\* whose last weekly tranche is 3000.
C3_Witness ==
    /\ op = "analyze"
    /\ analysis.scenario = 2
    /\ analysis.trade_plan.action = "accumulate"
    /\ analysis.trade_plan.position_value = Q(15000, 1)
    /\ analysis.trade_plan.entry_plan[4].value = Q(3000, 1)

\* C4: in both scenarios buy_signal is true whenever combined_score >= the
\* scenario threshold, equality included; in Scenario 1 buy_signal is false
\* whenever combined_score < threshold.
C4_BuySignalAtThreshold ==
    op = "analyze" =>
        LET score == analysis.signals.combined_score
            threshold == ConfiguredThreshold(analysis.scenario)
        IN  /\ QGe(score, threshold) => analysis.signals.buy_signal
            /\ (analysis.scenario = 1 /\ QLt(score, threshold)) => ~analysis.signals.buy_signal

\* C4 witness: Scenario 1 with the default threshold and a combined score of
\* exactly 0.70 (0.5 * 0.6 + 1.0 * 0.4), signalling a buy.
C4_Witness ==
    /\ op = "analyze"
    /\ analysis.scenario = 1
    /\ settings.SIGNAL_THRESHOLDS = SIGNAL_THRESHOLDS
    /\ analysis.signals.combined_score = Q(70, 100)
    /\ analysis.signals.fed_score = Q(5, 10)
    /\ analysis.signals.buy_signal

\* The Scenario 2 override rule with the override tier named label.
OverrideRule(label) ==
    (op = "analyze" /\ analysis.scenario = 2) =>
        LET score == analysis.signals.combined_score
            threshold == ConfiguredThreshold(2)
            level == Get(analysis.data.m2_money_supply, "growth_level", "unclassified")
            buy == analysis.signals.buy_signal
            strength == analysis.signals.signal_strength
        IN  /\ (level = "extreme_expansion" /\ QGe(score, Q(6, 10))) =>
                  (buy /\ strength = label)
            /\ (level = "extreme_expansion" /\ QLt(score, Q(6, 10))
                    /\ QGe(threshold, Q(6, 10))) => ~buy
            /\ level # "extreme_expansion" =>
                  /\ strength \in {"weak", "moderate", "strong", "very_strong"}
                  /\ buy <=> QGe(score, threshold)

\* C5 as stated: with growth classification extreme_expansion and
\* combined_score >= 0.6 buy_signal is forced true and the strength is the
\* tier "strong_override"; below 0.6 buy_signal is false; with any other
\* classification the override never fires.
C5_OverrideAsStated == OverrideRule("strong_override")

\* C5 amended: the same rule, the override tier being "strong_m2_override".
C5_OverrideAmended == OverrideRule("strong_m2_override")

\* C5 witness: extreme expansion with combined score 0.65 under the default
\* 0.75 threshold: a buy with the override tier.
C5_Witness ==
    /\ op = "analyze"
    /\ analysis.scenario = 2
    /\ settings.SIGNAL_THRESHOLDS = SIGNAL_THRESHOLDS
    /\ Get(analysis.data.m2_money_supply, "growth_level", "unclassified") = "extreme_expansion"
    /\ analysis.signals.combined_score = Q(65, 100)
    /\ analysis.signals.buy_signal
    /\ analysis.signals.signal_strength = "strong_m2_override"
    /\ analysis.trade_plan.action = "accumulate"

\* C6: when the policy-rate reading is missing, Scenario 1's rate sub-score is
\* 0.0 whatever the pivot fields, combined_score <= 0.4, and with the default
\* threshold 0.70 buy_signal is false and the plan is the no-action plan, for
\* every reserve level.
C6_MissingRateNeverBuys ==
    (/\ op = "analyze"
     /\ analysis.scenario = 1
     /\ (fetched[1].fred.raises \/ fetched[1].fred.current_rate = None)) =>
        /\ analysis.signals.fed_score = Zero
        /\ QLe(analysis.signals.combined_score, Q(4, 10))
        /\ settings.SIGNAL_THRESHOLDS.scenario_1 = Q(70, 100) =>
              /\ ~analysis.signals.buy_signal
              /\ analysis.trade_plan = [action        |-> "no_action",
                                        reason        |-> "Signal threshold not met",
                                        position_size |-> Zero]

\* C6 witness: no rate reading although a cut of magnitude 1.5 was detected,
\* reserves critically low: the combined score is the reserve leg, 0.4.
C6_Witness ==
    /\ op = "analyze"
    /\ analysis.scenario = 1
    /\ ~fetched[1].fred.raises
    /\ fetched[1].fred.current_rate = None
    /\ fetched[1].fred.pivot_info =
          [pivot_detected |-> TRUE, direction |-> "cutting", magnitude |-> Q(3, 2)]
    /\ analysis.signals.reserve_score = One
    /\ analysis.signals.combined_score = Q(4, 10)
    /\ settings.SIGNAL_THRESHOLDS.scenario_1 = Q(70, 100)
    /\ analysis.trade_plan.action = "no_action"

-----------------------------------------------------------------------------
(* Properties of the orchestrator, checked under OrchSpec *)

HasError(result) == "error" \in DOMAIN result

\* C7: get_all_signals returns one entry per registered scenario; each
\* scenario whose analysis failed has an entry with an error field, buy_signal
\* false and combined_score 0.0, and every other scenario's entry is exactly
\* the result its own analysis produces, whatever happened to the other one.
C7_AllSignalsIsolated ==
    op \in {"get_all_signals", "get_strongest_signal"} =>
        /\ Len(all_signals) = 2
        /\ \A i \in 1..2 :
              LET result == all_signals[i].result
              IN  /\ all_signals[i].key = (IF i = 1 THEN "scenario_1" ELSE "scenario_2")
                  /\ IF fetched[i].analyze_raises
                     THEN /\ HasError(result)
                          /\ result.signals.buy_signal = FALSE
                          /\ result.signals.combined_score = Zero
                     ELSE /\ ~HasError(result)
                          /\ result = run_analysis(settings, i, fetched[i], portfolio_value).value

\* C7 witness: Scenario 2 fails after Scenario 1 produced a buy at 0.70;
\* Scenario 1's entry is kept and Scenario 2's is the error entry.
C7_Witness ==
    /\ op = "get_all_signals"
    /\ ~fetched[1].analyze_raises
    /\ fetched[2].analyze_raises
    /\ all_signals[1].result.signals.combined_score = Q(70, 100)
    /\ all_signals[1].result.trade_plan.action = "buy"
    /\ HasError(all_signals[2].result)

\* The positions of the entries of all_signals that carry no error field.
ValidEntries == {i \in DOMAIN all_signals : ~HasError(all_signals[i].result)}

ScoreOf(i) == all_signals[i].result.signals.combined_score

\* C8: get_strongest_signal returns the non-error result with the maximum
\* combined_score, the first-registered one when several share the maximum.
C8_StrongestIsMaxValid ==
    (op = "get_strongest_signal" /\ ValidEntries # {}) =>
        \E i \in ValidEntries :
            /\ strongest = all_signals[i].result
            /\ \A j \in ValidEntries :
                  /\ QLe(ScoreOf(j), ScoreOf(i))
                  /\ ScoreOf(j) = ScoreOf(i) => i <= j

\* C8 witness: Scenario 1 is analysed without a rate reading or a reserve
\* reading (combined score 0.0, no error field), Scenario 2 raises, and
\* get_strongest_signal has answered.
C8_Witness ==
    /\ op = "get_strongest_signal"
    /\ ValidEntries = {1}
    /\ ScoreOf(1) = Zero
    /\ HasError(strongest)

\* C9: if every scenario's analysis errored, get_strongest_signal returns a
\* sentinel with buy_signal false, combined_score 0.0 and an error field.
C9_AllErroredSentinel ==
    (op = "get_strongest_signal" /\ ValidEntries = {}) =>
        /\ HasError(strongest)
        /\ strongest.error = "No valid signals available"
        /\ strongest.signals.buy_signal = FALSE
        /\ strongest.signals.combined_score = Zero

\* C9 witness: both analyses raised and the sentinel came back.
C9_Witness ==
    /\ op = "get_strongest_signal"
    /\ fetched[1].analyze_raises
    /\ fetched[2].analyze_raises
    /\ Len(all_signals) = 2
    /\ HasError(strongest)

\* The status a scenario component reports in the health dict.
ComponentStatus(i) == health.components[i].component.status

\* C10: overall_status is "healthy" iff every scenario component reports
\* "healthy"; "error" if any component reports "error" (or its health check
\* raised); otherwise "degraded".
C10_HealthDominance ==
    op = "health_check" =>
        health.overall_status =
            (IF \A i \in DOMAIN health.components : ComponentStatus(i) = "healthy"
             THEN "healthy"
             ELSE IF \E i \in DOMAIN health.components : ComponentStatus(i) = "error"
             THEN "error"
             ELSE "degraded")

\* C10 witness: Scenario 1's component reports "error", Scenario 2's reports
\* "healthy", and health_check has answered "degraded".
C10_Witness ==
    /\ op = "health_check"
    /\ ComponentStatus(1) = "error"
    /\ ComponentStatus(2) = "healthy"
    /\ health.overall_status = "degraded"

-----------------------------------------------------------------------------
(* Properties of run_analysis, checked under OrchSpec *)

\* C11: run_analysis with a scenario id that is not registered (anything but
\* 1 or 2) raises ValueError("Unknown scenario...") to the caller before any
\* scenario model is invoked; it never comes back as an error result or a
\* non-buy signal.
C11_UnknownScenarioRaises ==
    (op = "run_analysis" /\ request.scenario \notin {1, 2}) =>
        /\ run_outcome.raised
        /\ run_outcome.exception = "ValueError: Unknown scenario"
        /\ "value" \notin DOMAIN run_outcome
        /\ invoked = <<>>

\* C11 witness: scenario 3 is asked for; the call raised and no model ran.
C11_Witness ==
    /\ op = "run_analysis"
    /\ request.scenario = 3
    /\ run_outcome.raised
    /\ invoked = <<>>
    /\ fetched = <<>>

-----------------------------------------------------------------------------
(* Further properties of the scoring pipeline, checked under Spec *)

-----------------------------------------------------------------------------
(* Properties of the Scenario 1 weighting, checked under CombineSpec *)

\* C13: for a fixed reserve score, the Scenario A combined score is strictly
\* increasing in the rate sub-score: the lower of two rate sub-scores in
\* [0, 1] gives the strictly lower combined score.
C13_CombinedStrictlyIncreasing ==
    (op = "combine" /\ QLt(comparison.fed_score_1, comparison.fed_score_2)) =>
        QLt(comparison.combined_1, comparison.combined_2)

C13_Witness ==
    /\ op = "combine"
    /\ comparison.fed_score_1 = Q(4, 10)
    /\ comparison.fed_score_2 = Q(5, 10)
    /\ comparison.reserve_score = One
    /\ comparison.combined_1 = Q(64, 100)
    /\ comparison.combined_2 = Q(7, 10)

-----------------------------------------------------------------------------
(* End-to-end and bucket properties of the scoring pipeline, checked under Spec *)

\* The end-to-end reading of Scenario 1: policy rate 0.5, a detected pivot of
\* magnitude 1.0 towards cuts, exchange reserves of 2.3M BTC, thresholds as
\* constructed.
EndToEndReading ==
    /\ op = "analyze"
    /\ analysis.scenario = 1
    /\ settings.SIGNAL_THRESHOLDS = SIGNAL_THRESHOLDS
    /\ fetched[1].fred = [raises |-> FALSE, current_rate |-> Some(Q(1, 2)),
                          pivot_info |-> [pivot_detected |-> TRUE,
                                          direction |-> "cutting",
                                          magnitude |-> One]]
    /\ fetched[1].onchain = [raises |-> FALSE, reserves |-> Some(Q(2300000, 1))]

\* What the end-to-end reading yields apart from the size of the position.
EndToEndSignalAndSchedule ==
    /\ QGt(analysis.signals.fed_score, Q(8, 10))
    /\ QGt(analysis.signals.combined_score, Q(7, 10))
    /\ analysis.signals.buy_signal
    /\ analysis.trade_plan.action = "buy"
    /\ analysis.trade_plan.entry_strategy = "scaled_72h"
    /\ Len(analysis.trade_plan.entry_plan) = 4
    /\ \A i \in 1..4 :
          /\ analysis.trade_plan.entry_plan[i].timing = ExpectedSchedule(1)[i].timing
          /\ analysis.trade_plan.entry_plan[i].percentage = ExpectedSchedule(1)[i].percentage
    /\ QSum([i \in 1..4 |-> analysis.trade_plan.entry_plan[i].percentage]) = One

\* C14 as stated: the end-to-end reading gives a rate sub-score above 0.8, a
\* combined score above 0.7, a buy signal, a position_size equal to the active
\* risk profile's max_size, and the four-tranche 72-hour schedule summing to 1.0.
C14_EndToEndAsStated ==
    EndToEndReading =>
        /\ EndToEndSignalAndSchedule
        /\ analysis.trade_plan.position_size = ActiveMaxSize

\* C14 amended: as above, but position_size is min(max_size, 3 * base_size):
\* the maximum for the moderate and aggressive profiles (and for an unknown
\* profile, sized as moderate), 0.09 below the maximum 0.10 for conservative.
C14_EndToEndAmended ==
    EndToEndReading =>
        /\ EndToEndSignalAndSchedule
        /\ analysis.trade_plan.position_size =
              CASE settings.RISK_PROFILE = "conservative" -> Q(9, 100)
                [] settings.RISK_PROFILE = "aggressive"   -> Q(25, 100)
                [] OTHER                                  -> Q(15, 100)

\* C14 witness: the end-to-end reading under the conservative profile, where
\* three times the base size stays below the maximum.
C14_Witness ==
    /\ EndToEndReading
    /\ settings.RISK_PROFILE = "conservative"
    /\ analysis.signals.combined_score = One
    /\ analysis.trade_plan.position_size = Q(9, 100)
    /\ QLt(analysis.trade_plan.position_size, ActiveMaxSize)

\* The tier a combined score falls in.
TierOfScore(score) ==
    CASE QGe(score, Q(8, 10)) -> "very_strong"
      [] QLt(score, Q(8, 10)) /\ QGe(score, Q(6, 10)) -> "strong"
      [] QLt(score, Q(6, 10)) /\ QGe(score, Q(4, 10)) -> "moderate"
      [] OTHER -> "weak"

\* C15: in both scenarios the strength tier follows from combined_score alone,
\* whatever the configured threshold: very_strong from 0.8, strong from 0.6,
\* moderate from 0.4, weak below (boundaries inclusive); the only other tier
\* is the one Scenario 2 gives when its extreme-expansion override fires.
C15_TierFromScoreAlone ==
    op = "analyze" =>
        /\ analysis.scenario = 1 =>
              analysis.signals.signal_strength = TierOfScore(analysis.signals.combined_score)
        /\ analysis.scenario = 2 =>
              \/ analysis.signals.signal_strength = TierOfScore(analysis.signals.combined_score)
              \/ /\ analysis.signals.signal_strength = "strong_m2_override"
                 /\ Get(analysis.data.m2_money_supply, "growth_level", "unclassified")
                       = "extreme_expansion"
                 /\ QGe(analysis.signals.combined_score, Q(6, 10))

\* C15 witness: Scenario 1 reconfigured to threshold 1.0 with a combined score
\* of exactly 0.4: no buy, yet the tier is moderate.
C15_Witness ==
    /\ op = "analyze"
    /\ analysis.scenario = 1
    /\ settings.SIGNAL_THRESHOLDS.scenario_1 = One
    /\ analysis.signals.combined_score = Q(4, 10)
    /\ analysis.signals.signal_strength = "moderate"
    /\ ~analysis.signals.buy_signal

\* Scenario 1 analysed with an exchange-reserve reading at hand.
ReserveReadingPresent ==
    /\ op = "analyze"
    /\ analysis.scenario = 1
    /\ ~fetched[1].onchain.raises
    /\ fetched[1].onchain.reserves # None

\* C16: exchange reserves are scored by the first matching bucket in the order
\* critical_low, low, critical_high, high, default: below 2.35M -> 1.0; else
\* below 2.5M -> 0.7; else above 3.0M -> 0.0; else above 2.8M -> 0.2;
\* otherwise 0.4.  A value exactly on a boundary falls outside that
\* boundary's bucket (2.35M -> 0.7, 2.5M -> 0.4, 2.8M -> 0.4, 3.0M -> 0.2).
C16_ReserveBuckets ==
    ReserveReadingPresent =>
        LET reserves == Val(fetched[1].onchain.reserves).n
            score == analysis.signals.reserve_score
            level == analysis.data.exchange_reserves.reserve_level
        IN  /\ Val(fetched[1].onchain.reserves).d = 1
            /\ reserves < 2350000 => (score = One /\ level = "critical_low")
            /\ (reserves >= 2350000 /\ reserves < 2500000) =>
                  (score = Q(7, 10) /\ level = "low")
            /\ reserves > 3000000 => (score = Zero /\ level = "critical_high")
            /\ (reserves > 2800000 /\ reserves <= 3000000) =>
                  (score = Q(2, 10) /\ level = "high")
            /\ (reserves >= 2500000 /\ reserves <= 2800000) =>
                  (score = Q(4, 10) /\ level = "normal")

\* C16 witness: reserves of exactly 2.35M BTC, scored 0.7 as low.
C16_Witness ==
    /\ ReserveReadingPresent
    /\ fetched[1].onchain.reserves = Some(Q(2350000, 1))
    /\ analysis.signals.reserve_score = Q(7, 10)
    /\ analysis.data.exchange_reserves.reserve_level = "low"

\* C17: every bucket scan (policy rate, exchange reserves, M2 growth)
\* compares strictly, so a value exactly on a bucket boundary is never put
\* into the bucket that boundary opens: M2 growth of exactly 0.15 is not
\* extreme_expansion, a policy rate of exactly 1.0 is not ultra_low.
C17_StrictBoundaries ==
    op = "analyze" =>
        /\ (analysis.scenario = 2 /\ ~fetched[2].fred.raises
                /\ fetched[2].fred.m2_growth # None) =>
              LET growth == Val(fetched[2].fred.m2_growth)
                  level == analysis.data.m2_money_supply.growth_level
              IN  /\ growth = M2_THRESHOLDS.extreme_expansion => level # "extreme_expansion"
                  /\ growth = M2_THRESHOLDS.strong_expansion => level # "strong_expansion"
                  /\ growth = M2_THRESHOLDS.normal_expansion => level # "normal_expansion"
                  /\ growth = M2_THRESHOLDS.contraction => level # "slow_growth"
        /\ (analysis.scenario = 1 /\ ~fetched[1].fred.raises
                /\ fetched[1].fred.current_rate # None
                /\ fetched[1].fred.pivot_info =
                      [pivot_detected |-> FALSE, direction |-> "neutral", magnitude |-> Zero]) =>
              LET rate == Val(fetched[1].fred.current_rate)
                  score == analysis.signals.fed_score
              IN  /\ rate = FED_RATE_THRESHOLDS.ultra_low => score # Q(8, 10)
                  /\ rate = FED_RATE_THRESHOLDS.low => score # Q(5, 10)
                  /\ rate = FED_RATE_THRESHOLDS.neutral => score # Q(3, 10)
        /\ (analysis.scenario = 1 /\ ~fetched[1].onchain.raises
                /\ fetched[1].onchain.reserves # None) =>
              LET reserves == Val(fetched[1].onchain.reserves)
                  level == analysis.data.exchange_reserves.reserve_level
              IN  /\ reserves = EXCHANGE_RESERVE_THRESHOLDS.critical_low => level # "critical_low"
                  /\ reserves = EXCHANGE_RESERVE_THRESHOLDS.low => level # "low"
                  /\ reserves = EXCHANGE_RESERVE_THRESHOLDS.critical_high => level # "critical_high"
                  /\ reserves = EXCHANGE_RESERVE_THRESHOLDS.high => level # "high"

\* C17 witness: M2 growth of exactly 0.15, classified extreme_expansion and
\* scored 1.0.
C17_Witness ==
    /\ op = "analyze"
    /\ analysis.scenario = 2
    /\ ~fetched[2].fred.raises
    /\ fetched[2].fred.m2_growth = Some(Q(15, 100))
    /\ analysis.data.m2_money_supply.growth_level = "extreme_expansion"
    /\ analysis.data.m2_money_supply.growth_score = One

\* The rate and reserve scans alone do compare strictly.
RateAndReserveBoundariesStrict ==
    (op = "analyze" /\ analysis.scenario = 1) => C17_StrictBoundaries

\* Scenario 1 analysed with a policy-rate reading at hand.
RateReadingPresent ==
    /\ op = "analyze"
    /\ analysis.scenario = 1
    /\ ~fetched[1].fred.raises
    /\ fetched[1].fred.current_rate # None

\* The multiplier a pivot answer calls for, a missing magnitude counting as 0.
MultiplierFor(pivot_info) ==
    LET detected == Get(pivot_info, "pivot_detected", FALSE)
        direction == Get(pivot_info, "direction", "neutral")
        magnitude == Get(pivot_info, "magnitude", Zero)
    IN  CASE detected /\ direction = "cutting" ->
                 QAdd(Q(3, 2), QMin(Q(1, 2), QDiv(magnitude, Q(2, 1))))
          [] detected /\ direction = "hiking" -> Q(3, 10)
          [] ~detected /\ direction = "cutting" -> Q(6, 5)
          [] OTHER -> One

\* C18: Scenario 1's rate sub-score is min(1.0, base_score * multiplier),
\* clamped before the 0.6 weighting, the multiplier being
\* 1.5 + min(0.5, magnitude / 2.0) for a detected pivot towards cuts, 0.3 for a
\* detected pivot towards hikes, 1.2 for undetected cuts and 1.0 otherwise; a
\* missing magnitude counts as 0.
C18_RateSubScore ==
    RateReadingPresent =>
        LET base_score == rate_base_score(Val(fetched[1].fred.current_rate),
                                          FED_RATE_THRESHOLDS)
            product == QMul(base_score, MultiplierFor(fetched[1].fred.pivot_info))
        IN  /\ analysis.signals.fed_score = (IF QLt(product, One) THEN product ELSE One)
            /\ analysis.signals.combined_score =
                  QAdd(QMul(analysis.signals.fed_score, Q(6, 10)),
                       QMul(analysis.signals.reserve_score, Q(4, 10)))

\* C18 witness: rate 3.0 (base score 0.3), a detected pivot towards cuts whose
\* answer carries no magnitude: multiplier 1.5, sub-score 0.45.
C18_Witness ==
    /\ RateReadingPresent
    /\ fetched[1].fred.current_rate = Some(Q(3, 1))
    /\ fetched[1].fred.pivot_info = [pivot_detected |-> TRUE, direction |-> "cutting"]
    /\ analysis.signals.fed_score = Q(45, 100)

\* The clamp at work: rate 0.5 (base score 0.8) doubled by a detected cut of
\* magnitude 1.5 gives a sub-score of 1.0.
RateSubScoreClamped ==
    /\ RateReadingPresent
    /\ fetched[1].fred.current_rate = Some(Q(1, 2))
    /\ fetched[1].fred.pivot_info =
          [pivot_detected |-> TRUE, direction |-> "cutting", magnitude |-> Q(3, 2)]
    /\ analysis.signals.fed_score = One

\* Scenario 2 analysed with an M2 growth reading at hand.
GrowthReadingPresent ==
    /\ op = "analyze"
    /\ analysis.scenario = 2
    /\ ~fetched[2].fred.raises
    /\ fetched[2].fred.m2_growth # None

\* clamp(lo, hi, x)
Clamp(lo, hi, x) == IF QLt(x, lo) THEN lo ELSE IF QGt(x, hi) THEN hi ELSE x

\* The bonus an acceleration reading calls for.
BonusFor(acceleration) ==
    IF acceleration = None
    THEN Zero
    ELSE Clamp(Q(-2, 10), Q(2, 10), QMul(Val(acceleration), Q(5, 1)))

\* C19: Scenario 2's money-supply sub-score is clamp01(growth_score + bonus),
\* the bonus being clamp(-0.2, 0.2, acceleration * 5), and exactly 0 without
\* an acceleration; it is applied before the 0.5 weighting and never moves the
\* sub-score by more than 0.2 either way.
C19_AccelerationBonus ==
    GrowthReadingPresent =>
        LET growth_score == analysis.data.m2_money_supply.growth_score
            acceleration == fetched[2].fred.m2_acceleration
            m2_score == analysis.signals.m2_score
        IN  /\ m2_score = Clamp(Zero, One, QAdd(growth_score, BonusFor(acceleration)))
            /\ QLe(QSub(m2_score, growth_score), Q(2, 10))
            /\ QLe(QSub(growth_score, m2_score), Q(2, 10))
            /\ acceleration = None => m2_score = growth_score
            /\ analysis.signals.combined_score =
                  QAdd(QMul(m2_score, Q(5, 10)),
                       QMul(analysis.signals.miner_score, Q(5, 10)))

\* C19 witness: growth 0.05 (growth_score 0.5) accelerating by 0.06: the bonus
\* 0.3 is cut to 0.2 and the sub-score is 0.7.
C19_Witness ==
    /\ GrowthReadingPresent
    /\ fetched[2].fred.m2_growth = Some(Q(5, 100))
    /\ fetched[2].fred.m2_acceleration = Some(Q(3, 50))
    /\ analysis.data.m2_money_supply.growth_score = Q(5, 10)
    /\ analysis.signals.m2_score = Q(7, 10)

\* What generate_trade_plan returns by buy_signal, the no-action plan carrying
\* the given action and reason.
TradePlanRule(action, reason) ==
    op \in {"analyze", "analyze_again"} =>
        /\ ~analysis.signals.buy_signal =>
              /\ analysis.trade_plan.action = action
              /\ analysis.trade_plan.reason = reason
              /\ analysis.trade_plan.position_size = Zero
              /\ DOMAIN analysis.trade_plan = {"action", "reason", "position_size"}
        /\ analysis.signals.buy_signal =>
              analysis.trade_plan.action = (IF analysis.scenario = 1 THEN "buy" ELSE "accumulate")

\* A call whose result carries no buy signal leaves the settings and the
\* portfolio value as they were.
NoBuyChangesNothing ==
    (op' \in {"analyze", "analyze_again"} /\ ~analysis'.signals.buy_signal) =>
        /\ settings' = settings
        /\ portfolio_value' = portfolio_value

-----------------------------------------------------------------------------
(* Sizing and missing readings, checked under Spec *)

\* base_size of the active risk profile, an unknown profile counting as moderate.
ActiveBaseSize ==
    CASE settings.RISK_PROFILE = "conservative" -> Q(3, 100)
      [] settings.RISK_PROFILE = "aggressive"   -> Q(10, 100)
      [] OTHER                                  -> Q(5, 100)

\* The multiplier the sizing rule calls for: floor + (excess / max_excess) * ramp,
\* and the floor alone when max_excess is 0.
MultiplierRule(score, threshold, floor, ramp) ==
    IF threshold = One
    THEN floor
    ELSE QAdd(floor,
              QMul(QDiv(IF QGt(score, threshold) THEN QSub(score, threshold) ELSE Zero,
                        QSub(One, threshold)),
                   ramp))

\* C21: for a buy plan position_size = min(max_size, base_size * multiplier)
\* and position_value = portfolio_value * position_size, with
\* excess = max(0, combined_score - threshold), max_excess = 1 - threshold and
\* multiplier = 1.0 + (excess / max_excess) * 2.0 in Scenario 1,
\* 1.2 + (excess / max_excess) * 2.5 in Scenario 2; with max_excess 0
\* (threshold 1.0) nothing is divided and the multiplier is 1.0, resp. 1.2.
C21_PositionSizing ==
    (op = "analyze" /\ analysis.signals.buy_signal) =>
        LET multiplier ==
                IF analysis.scenario = 1
                THEN MultiplierRule(analysis.signals.combined_score,
                                    ConfiguredThreshold(1), One, Q(2, 1))
                ELSE MultiplierRule(analysis.signals.combined_score,
                                    ConfiguredThreshold(2), Q(12, 10), Q(25, 10))
            scaled == QMul(ActiveBaseSize, multiplier)
        IN  /\ analysis.trade_plan.position_size =
                  (IF QLt(scaled, ActiveMaxSize) THEN scaled ELSE ActiveMaxSize)
            /\ analysis.trade_plan.position_value =
                  QMul(Q(portfolio_value, 1), analysis.trade_plan.position_size)

\* C21 witness: Scenario 2 reconfigured to threshold 1.0 and scoring 1.0 under
\* the conservative profile: max_excess is 0, the multiplier 1.2, the size 0.036.
C21_Witness ==
    /\ op = "analyze"
    /\ analysis.scenario = 2
    /\ settings.RISK_PROFILE = "conservative"
    /\ settings.SIGNAL_THRESHOLDS.scenario_2 = One
    /\ analysis.signals.combined_score = One
    /\ analysis.signals.buy_signal
    /\ analysis.trade_plan.position_size = Q(36, 1000)
    /\ analysis.trade_plan.position_value = QMul(Q(portfolio_value, 1), Q(36, 1000))

-----------------------------------------------------------------------------
(* Further properties of the orchestrator, checked under OrchSpec *)

\* C22: a scenario model's health_check reduces its three provider statuses
\* (fred, crypto, onchain): "healthy" iff all three are "healthy", "error" if
\* any is "error" whatever the others are, otherwise "degraded" (an "unknown"
\* or "degraded" provider without an error gives "degraded").
C22_ModelHealthReduction ==
    op = "health_check" =>
        \A i \in DOMAIN health.components :
            ~fetched[i].raises =>
                LET providers == fetched[i].providers
                    status == ComponentStatus(i)
                IN  /\ health.components[i].component.providers = providers
                    /\ (status = "healthy") <=> (\A p \in 1..3 : providers[p] = "healthy")
                    /\ (\E p \in 1..3 : providers[p] = "error") => status = "error"
                    /\ ((\E p \in 1..3 : providers[p] # "healthy")
                            /\ (\A p \in 1..3 : providers[p] # "error")) => status = "degraded"

\* C22 witness: Scenario 1 with a degraded and an unknown provider and no
\* error reports "degraded"; Scenario 2 with a degraded, an erroring and an
\* unknown provider reports "error".
C22_Witness ==
    /\ op = "health_check"
    /\ ~fetched[1].raises
    /\ ~fetched[2].raises
    /\ fetched[1].providers = <<"degraded", "healthy", "unknown">>
    /\ fetched[2].providers = <<"degraded", "error", "unknown">>
    /\ ComponentStatus(1) = "degraded"
    /\ ComponentStatus(2) = "error"

-----------------------------------------------------------------------------
(* Missing readings, checked under Spec *)

\* Signals and a trade plan have been computed, through analyze or directly.
SignalsComputed == op \in {"analyze", "analyze_again", "direct"}

\* C23: a missing primary reading is a valid input: with fed_funds_rate None
\* (Scenario 1) or m2_growth_rate None (Scenario 2) calculate_signal_strength
\* and generate_trade_plan complete, the affected sub-score is exactly 0.0
\* whatever the other keys hold, and a missing secondary reading (no
\* reserve_score, no ribbon_score) contributes 0.0 as well.
C23_MissingReadingsScoreZero ==
    SignalsComputed =>
        /\ "action" \in DOMAIN analysis.trade_plan
        /\ "buy_signal" \in DOMAIN analysis.signals
        /\ analysis.scenario = 1 =>
              /\ Get(analysis.data.fed_policy, "fed_funds_rate", None) = None =>
                    analysis.signals.fed_score = Zero
              /\ "reserve_score" \notin DOMAIN analysis.data.exchange_reserves =>
                    analysis.signals.reserve_score = Zero
              /\ analysis.signals.combined_score =
                    QAdd(QMul(analysis.signals.fed_score, Q(6, 10)),
                         QMul(analysis.signals.reserve_score, Q(4, 10)))
        /\ analysis.scenario = 2 =>
              /\ Get(analysis.data.m2_money_supply, "m2_growth_rate", None) = None =>
                    analysis.signals.m2_score = Zero
              /\ "ribbon_score" \notin DOMAIN analysis.data.miner_metrics =>
                    analysis.signals.miner_score = Zero
              /\ analysis.signals.combined_score =
                    QAdd(QMul(analysis.signals.m2_score, Q(5, 10)),
                         QMul(analysis.signals.miner_score, Q(5, 10)))

\* C23 witness: Scenario 2 called directly with no growth rate although
\* growth_score 1.0, extreme_expansion and an acceleration are given, and no
\* ribbon score: both sub-scores are 0.0 and the plan is the no-action plan.
C23_Witness ==
    /\ op = "direct"
    /\ analysis.scenario = 2
    /\ analysis.data.m2_money_supply =
          [m2_growth_rate |-> None, m2_acceleration |-> Some(Q(3, 50)),
           growth_level |-> "extreme_expansion", growth_score |-> One]
    /\ "ribbon_score" \notin DOMAIN analysis.data.miner_metrics
    /\ analysis.signals.m2_score = Zero
    /\ analysis.signals.miner_score = Zero
    /\ analysis.signals.combined_score = Zero
    /\ analysis.trade_plan.action = "no_action"

-----------------------------------------------------------------------------
(* utils/error_handling.py : retry_on_exception *)

MaxRetries == 3             \* max_retries handed to the decorator: 0 .. MaxRetries

\* How one invocation of the wrapped function ends: it returns a value, raises
\* an exception of a listed type, or raises an exception of another type.
AttemptOutcomes == {"value", "listed", "unlisted"}

\* time.sleep(delay) is reached only while attempt < max_retries
\* (error_handling.py:55-58)
\* (a faulty variant that also sleeps after the last attempt; C24 rejects it)
delays_after_every_failure(attempt, max_retries, delays) == delays + 1
delays_after(attempt, max_retries, delays) ==
    IF attempt < max_retries THEN delays + 1 ELSE delays

\* The for loop of wrapper (error_handling.py:50-62).  script[k] is how the
\* k-th invocation of func ends; attempt counts from 0 as range() does.  An
\* exception is identified by the attempt that raised it.
RECURSIVE wrapper_loop(_, _, _, _, _)
wrapper_loop(max_retries, script, attempt, delays, last_exception) ==
    IF attempt > max_retries
    THEN [calls |-> attempt, delays |-> delays,
          outcome |-> [kind |-> "raised", exception |-> last_exception]]
    ELSE IF script[attempt + 1] = "value"
    THEN [calls |-> attempt + 1, delays |-> delays,
          outcome |-> [kind |-> "returned", value |-> attempt]]
    ELSE IF script[attempt + 1] = "unlisted"
    THEN [calls |-> attempt + 1, delays |-> delays,
          outcome |-> [kind |-> "raised",
                       exception |-> [listed |-> FALSE, attempt |-> attempt]]]
    ELSE wrapper_loop(max_retries, script, attempt + 1,
                      delays_after(attempt, max_retries, delays),
                      [listed |-> TRUE, attempt |-> attempt])

\* wrapper(*args, **kwargs): last_exception = None, then the loop.
wrapper(max_retries, script) == wrapper_loop(max_retries, script, 0, 0, None)

\* One call of the wrapped function.
CallWrapped ==
    /\ op = "none"
    /\ retry' = [max_retries |-> retry.max_retries,
                 script      |-> retry.script,
                 result      |-> wrapper(retry.max_retries, retry.script)]
    /\ op' = "retry"
    /\ UNCHANGED <<settings, portfolio_value, fetched, analysis, all_signals, strongest,
                   health, request, run_outcome, invoked, previous, comparison, trader_vars>>

RetryNext == CallWrapped

RetryInit ==
    /\ settings = [RISK_PROFILE |-> "moderate", SIGNAL_THRESHOLDS |-> SIGNAL_THRESHOLDS]
    /\ portfolio_value = 100000
    /\ comparison = NoResult
    /\ retry \in [max_retries : 0..MaxRetries,
                  script : [1..(MaxRetries + 1) -> AttemptOutcomes]]
    /\ NoTrader
    /\ Idle

RetrySpec == RetryInit /\ [][RetryNext]_vars

-----------------------------------------------------------------------------
(* Properties of retry_on_exception, checked under RetrySpec *)

\* The invocations of func the decorator allows: 1 .. max_retries + 1.
Attempts == 1..(retry.max_retries + 1)

\* The first invocation that does not raise a listed exception, 0 if all do.
FirstDecisive ==
    IF \A k \in Attempts : retry.script[k] = "listed"
    THEN 0
    ELSE CHOOSE k \in Attempts :
             /\ retry.script[k] # "listed"
             /\ \A j \in 1..(k - 1) : retry.script[j] = "listed"

\* C24: a function wrapped by retry_on_exception(max_retries, delay,
\* exceptions) is invoked at most max_retries + 1 times; the value of the
\* first successful attempt is returned and no further attempt is made; if
\* every attempt raises a listed exception, the exception of the last attempt
\* is re-raised after exactly max_retries delays; an exception of another
\* type propagates at once without any retry.
C24_RetryContract ==
    op = "retry" =>
        /\ retry.result.calls <= retry.max_retries + 1
        /\ FirstDecisive = 0 =>
              /\ retry.result.outcome =
                    [kind |-> "raised",
                     exception |-> [listed |-> TRUE, attempt |-> retry.max_retries]]
              /\ retry.result.calls = retry.max_retries + 1
              /\ retry.result.delays = retry.max_retries
        /\ (FirstDecisive # 0 /\ retry.script[FirstDecisive] = "value") =>
              /\ retry.result.outcome = [kind |-> "returned", value |-> FirstDecisive - 1]
              /\ retry.result.calls = FirstDecisive
              /\ retry.result.delays = FirstDecisive - 1
        /\ (FirstDecisive # 0 /\ retry.script[FirstDecisive] = "unlisted") =>
              /\ retry.result.outcome =
                    [kind |-> "raised",
                     exception |-> [listed |-> FALSE, attempt |-> FirstDecisive - 1]]
              /\ retry.result.calls = FirstDecisive

\* C24 witness: max_retries 2 and three attempts that all raise a listed
\* exception: three invocations, two delays, the third exception re-raised.
C24_Witness ==
    /\ op = "retry"
    /\ retry.max_retries = 2
    /\ \A k \in 1..3 : retry.script[k] = "listed"
    /\ retry.result.calls = 3
    /\ retry.result.delays = 2
    /\ retry.result.outcome.kind = "raised"
    /\ retry.result.outcome.exception = [listed |-> TRUE, attempt |-> 2]

-----------------------------------------------------------------------------
(* exchange_integration/trading_config.py : SafetyManager *)

MaxTradesPerDay == 3        \* record_trade_result calls between two resets
MaxLossStreak == 4          \* consecutive_losses is followed up to this count
MaxMinutes == 16            \* minutes of trading loop followed after the trader's construction

\* SafetyManager(): the dataclass defaults (trading_config.py:133-141).
\* Amounts of money and prices are whole dollars.
NewSafetyManager ==
    [daily_loss_limit                 |-> Q(2, 100),
     consecutive_loss_limit           |-> 3,
     unusual_price_movement_threshold |-> Q(10, 100),
     daily_pnl                        |-> 0,
     consecutive_losses               |-> 0,
     last_price_check                 |-> 0,
     trades_today                     |-> 0]

\* daily_loss_pct = abs(self.daily_pnl) / current_portfolio_value
\* (trading_config.py:165)
daily_loss_pct(daily_pnl, current_portfolio_value) ==
    Q(Abs(daily_pnl), current_portfolio_value)

\* The daily loss test (trading_config.py:166)
daily_loss_limit_hit(sm, current_portfolio_value) ==
    QGe(daily_loss_pct(sm.daily_pnl, current_portfolio_value), sm.daily_loss_limit)

\* The consecutive losses test (trading_config.py:171)
consecutive_loss_limit_hit(sm) == sm.consecutive_losses >= sm.consecutive_loss_limit

\* The price movement test (trading_config.py:176-179)
unusual_price_movement(sm, btc_price) ==
    /\ sm.last_price_check > 0
    /\ QGe(Q(Abs(btc_price - sm.last_price_check), sm.last_price_check),
           sm.unusual_price_movement_threshold)

\* The dict check_safety_conditions returns; a reason or warning is named
\* by the text before its formatted number.
safety_checks(daily_hit, consecutive_hit, unusual) ==
    [safe_to_trade |-> ~(daily_hit \/ consecutive_hit),
     reasons       |-> (IF daily_hit THEN <<"Daily loss limit exceeded">> ELSE <<>>)
                       \o (IF consecutive_hit
                           THEN <<"Consecutive loss limit exceeded">> ELSE <<>>),
     warnings      |-> IF unusual THEN <<"Unusual price movement detected">> ELSE <<>>]

\* SafetyManager.check_safety_conditions: the returned dict
check_safety_conditions(sm, current_portfolio_value, btc_price) ==
    safety_checks(daily_loss_limit_hit(sm, current_portfolio_value),
                  consecutive_loss_limit_hit(sm),
                  unusual_price_movement(sm, btc_price))

\* SafetyManager.check_safety_conditions: self.last_price_check = btc_price
\* (a faulty variant that also books a losing trade at every check; C30 rejects it)
price_checked_recording_loss(sm, btc_price) ==
    [sm EXCEPT !.last_price_check = btc_price,
               !.trades_today = @ + 1,
               !.consecutive_losses = @ + 1]
price_checked(sm, btc_price) == [sm EXCEPT !.last_price_check = btc_price]

\* SafetyManager.record_trade_result
record_trade_result(sm, pnl, is_profitable) ==
    [sm EXCEPT !.daily_pnl = @ + pnl,
               !.trades_today = @ + 1,
               !.consecutive_losses = IF is_profitable THEN 0 ELSE @ + 1]

\* SafetyManager.reset_daily_counters
reset_daily_counters(sm) == [sm EXCEPT !.daily_pnl = 0, !.trades_today = 0]

\* Profit or loss of one trade, portfolio values and BTC prices of a check.
TradePnLs == {0 - 1500, 0 - 500, 1000, 2500}
CheckedPortfolioValues == {100000}
BtcPrices == {50000, 56000}

\* What a call on the SafetyManager leaves alone.
SafetyFrame ==
    UNCHANGED <<settings, portfolio_value, fetched, analysis, all_signals, strongest,
                health, run_outcome, invoked, previous, comparison, retry,
                config, trader, orders, now>>

RecordTradeResult ==
    /\ safety.trades_today < MaxTradesPerDay
    /\ \E pnl \in TradePnLs, is_profitable \in BOOLEAN :
          /\ is_profitable \/ safety.consecutive_losses < MaxLossStreak
          /\ request' = [pnl |-> pnl, is_profitable |-> is_profitable]
          /\ safety' = record_trade_result(safety, pnl, is_profitable)
    /\ op' = "record_trade_result"
    /\ UNCHANGED checks
    /\ SafetyFrame

ResetDailyCounters ==
    /\ safety' = reset_daily_counters(safety)
    /\ request' = NoResult
    /\ op' = "reset_daily_counters"
    /\ UNCHANGED checks
    /\ SafetyFrame

CheckSafetyConditions ==
    /\ \E current_portfolio_value \in CheckedPortfolioValues, btc_price \in BtcPrices :
          /\ request' = [current_portfolio_value |-> current_portfolio_value,
                         btc_price |-> btc_price]
          /\ checks' = check_safety_conditions(safety, current_portfolio_value, btc_price)
          /\ safety' = price_checked(safety, btc_price)
    /\ op' = "check_safety_conditions"
    /\ SafetyFrame

SafetyNext == RecordTradeResult \/ ResetDailyCounters \/ CheckSafetyConditions

SafetyInit ==
    /\ settings = [RISK_PROFILE |-> "moderate", SIGNAL_THRESHOLDS |-> SIGNAL_THRESHOLDS]
    /\ portfolio_value = 100000
    /\ comparison = NoResult
    /\ NoRetry
    /\ safety = NewSafetyManager
    /\ checks = NoResult
    /\ config = NoResult
    /\ trader = NoResult
    /\ orders = <<>>
    /\ now = 0
    /\ Idle

SafetySpec == SafetyInit /\ [][SafetyNext]_vars

-----------------------------------------------------------------------------
(* Properties of SafetyManager, checked under SafetySpec *)

\* The latest check gave the daily-loss reason.  The check leaves daily_pnl as
\* it found it, so safety.daily_pnl is the value the check read.
DailyLossTripped ==
    \E i \in DOMAIN checks.reasons : checks.reasons[i] = "Daily loss limit exceeded"

\* C25: the daily loss limit blocks trading only on losses: after any sequence
\* of record_trade_result and reset_daily_counters calls,
\* check_safety_conditions gives the daily-loss reason (and safe_to_trade
\* false) iff daily_pnl is a net loss of at least daily_loss_limit * portfolio
\* value; a net profit of any size never trips it, and a reset clears it.
C25_DailyLossOnlyOnLosses ==
    op = "check_safety_conditions" =>
        /\ DailyLossTripped <=>
              (safety.daily_pnl < 0
                  /\ QGe(Q(0 - safety.daily_pnl, 1),
                         QMul(safety.daily_loss_limit,
                              Q(request.current_portfolio_value, 1))))
        /\ DailyLossTripped => ~checks.safe_to_trade
        /\ safety.daily_pnl >= 0 => ~DailyLossTripped

\* C25 witness: a single trade with a profit of 2500 on a portfolio of 100000
\* and no losing streak: the check reports the daily loss limit as exceeded
\* and forbids trading.
C25_Witness ==
    /\ op = "check_safety_conditions"
    /\ safety.daily_pnl = 2500
    /\ safety.trades_today = 1
    /\ safety.consecutive_losses = 0
    /\ request.current_portfolio_value = 100000
    /\ DailyLossTripped
    /\ ~checks.safe_to_trade

\* On net losses and after a reset the rule is as claimed.
DailyLossRuleOnLosses ==
    (op = "check_safety_conditions" /\ safety.daily_pnl <= 0) =>
        (DailyLossTripped <=>
            QGe(Q(0 - safety.daily_pnl, 1),
                QMul(safety.daily_loss_limit, Q(request.current_portfolio_value, 1))))

-----------------------------------------------------------------------------
(* Properties of get_strongest_signal, checked under OrchSpec *)

\* C27: get_strongest_signal returns the 'No valid signals available'
\* sentinel only if every scenario errored: whenever some scenario completed
\* without an error field, the returned result is one of the non-error
\* results, also when every non-error combined score is 0.0.
C27_SentinelOnlyIfAllErrored ==
    (op = "get_strongest_signal" /\ ValidEntries # {}) =>
        /\ ~HasError(strongest)
        /\ \E i \in ValidEntries : strongest = all_signals[i].result

\* C27 witness: both scenarios completed without an error, both with a
\* combined score of 0.0, and the sentinel came back.
C27_Witness ==
    /\ op = "get_strongest_signal"
    /\ ValidEntries = {1, 2}
    /\ ScoreOf(1) = Zero
    /\ ScoreOf(2) = Zero
    /\ HasError(strongest)
    /\ strongest.error = "No valid signals available"

\* With a positive non-error score the result is never the sentinel.
SentinelOnlyAtZero ==
    (op = "get_strongest_signal"
        /\ \E i \in ValidEntries : QGt(ScoreOf(i), Zero)) =>
        /\ ~HasError(strongest)
        /\ \E i \in ValidEntries : strongest = all_signals[i].result

\* C28: selecting by score never hides a buy: if any non-error scenario in
\* get_all_signals has buy_signal true, the result get_strongest_signal
\* returns has buy_signal true as well.
C28_StrongestKeepsBuy ==
    (op = "get_strongest_signal"
        /\ \E i \in ValidEntries : all_signals[i].result.signals.buy_signal) =>
        strongest.signals.buy_signal

\* C28 witness: Scenario 1 is a buy at its threshold 0.70, Scenario 2 scores
\* higher but stays below its own threshold 0.75, and the result returned is
\* Scenario 2's, which is no buy.
C28_Witness ==
    /\ op = "get_strongest_signal"
    /\ ValidEntries = {1, 2}
    /\ all_signals[1].result.signals.buy_signal
    /\ ~all_signals[2].result.signals.buy_signal
    /\ QGt(ScoreOf(2), ScoreOf(1))
    /\ strongest = all_signals[2].result
    /\ strongest.trade_plan.action = "no_action"

\* When the highest-scoring non-error result is itself a buy, the returned
\* result is a buy.
StrongestBuyIsReturned ==
    (op = "get_strongest_signal"
        /\ \E i \in ValidEntries :
              /\ all_signals[i].result.signals.buy_signal
              /\ \A j \in ValidEntries : QGe(ScoreOf(i), ScoreOf(j))) =>
        strongest.signals.buy_signal

-----------------------------------------------------------------------------
(* exchange_integration/trading_config.py: TradingConfig *)

\* The exchanges of ExchangeType
ExchangeType == {"binance", "coinbase", "kraken", "bybit", "okx", "kucoin", "gemini"}

\* One entry of the list validate returns, present iff its condition holds.
error_if(condition, message) == IF condition THEN <<message>> ELSE <<>>

\* The limit checks of TradingConfig.validate (trading_config.py:69-92)
limit_errors(cfg) ==
    error_if(cfg.api_key = "", "API key is required")
    \o error_if(cfg.api_secret = "", "API secret is required")
    \o error_if(cfg.exchange \notin ExchangeType, "Unsupported exchange")
    \o error_if(QLe(cfg.max_position_size, Zero) \/ QGt(cfg.max_position_size, One),
                "max_position_size must be between 0 and 1.0")
    \o error_if(QLe(cfg.min_order_size_btc, Zero), "min_order_size_btc must be positive")
    \o error_if(QLe(cfg.max_daily_loss, Zero) \/ QGt(cfg.max_daily_loss, One),
                "max_daily_loss must be between 0 and 1.0")
    \o error_if(QLt(cfg.slippage_tolerance, Zero) \/ QGt(cfg.slippage_tolerance, Q(1, 2)),
                "slippage_tolerance must be between 0 and 0.5")

\* TradingConfig.validate: the limit checks, then the two safety warnings,
\* appended to the same list (trading_config.py:94-101).
\* (a faulty variant that logs the warnings instead of returning them; C29 rejects it)
validate_without_warnings(cfg) == limit_errors(cfg)
validate(cfg) ==
    limit_errors(cfg)
    \o error_if(~cfg.testnet, "WARNING: testnet=False means real money trading!")
    \o error_if(~cfg.dry_run, "WARNING: dry_run=False means real order execution!")

\* The configurations a caller constructs: the dataclass defaults
\* (trading_config.py:35-46) and values off them, field by field.
TradingConfigs ==
    [exchange           : {"binance", "ftx"},
     api_key            : {"", "key"},
     api_secret         : {"", "secret"},
     testnet            : BOOLEAN,
     dry_run            : BOOLEAN,
     max_position_size  : {Zero, Q(5, 100), Q(10, 100), Q(3, 2)},
     min_order_size_btc : {Zero, Q(1, 1000)},
     max_daily_loss     : {Q(2, 100)},
     slippage_tolerance : {Q(2, 100), Q(6, 10)}]

-----------------------------------------------------------------------------
(* exchange_integration/automated_trader.py: AutomatedTrader *)

\* The trading state __init__ sets (automated_trader.py:43-47)
NewTrader ==
    [state             |-> "constructed",
     is_running        |-> FALSE,
     current_position  |-> Zero,
     last_signal_check |-> None,
     pending_orders    |-> <<>>]

\* __init__ leaving with ValueError (automated_trader.py:34-38)
RejectedTrader(errors) == [state |-> "ValueError", errors |-> errors]

\* AutomatedTrader.__init__: what the caller holds afterwards
new_trader(errors) == IF errors # <<>> THEN RejectedTrader(errors) ELSE NewTrader

\* _get_btc_price.  In a dry run self.model.crypto_provider is read;
\* BitcoinMacroModel has no such attribute (core.py:31-52), the AttributeError
\* is caught and the fallback price is returned.  Otherwise the exchange's
\* ticker answers, with the same fallback when it raises.
get_btc_price(cfg, ticker) ==
    IF cfg.dry_run THEN 50000
    ELSE IF ticker.raises THEN 50000
    ELSE ticker.last

\* _get_portfolio_value
get_portfolio_value(cfg, balance) ==
    IF cfg.dry_run THEN 100000
    ELSE IF balance.raises THEN 100000
    ELSE Get(Get(balance, "total", <<>>), "USDT", 100000)

\* _health_check
trader_health_check(cfg, model_health, ticker) ==
    IF Get(model_health, "overall_status", "none") = "error" THEN FALSE
    ELSE IF ~cfg.dry_run /\ ticker.raises THEN FALSE
    ELSE TRUE

\* The signal check is due (automated_trader.py:117-118)
signal_check_due(last_signal_check, minute) ==
    \/ last_signal_check = None
    \/ minute - Val(last_signal_check) >= 15

\* _execute_trade_plan: target_btc_amount (automated_trader.py:155-156)
target_btc_amount(trade_plan, pv, btc_price) ==
    QDiv(QMul(Q(pv, 1), Get(trade_plan, "position_size", Zero)), Q(btc_price, 1))

\* _execute_trade_plan: btc_to_buy (automated_trader.py:164)
btc_to_buy(current_position, target) == QSub(target, current_position)

\* _execute_trade_plan reaches one of its buy calls (automated_trader.py:151-168)
plan_buys(cfg, current_position, trade_plan, target) ==
    /\ Get(trade_plan, "action", "none") \in {"buy", "accumulate"}
    /\ ~QGe(current_position, QMul(target, Q(9, 10)))
    /\ ~QLt(btc_to_buy(current_position, target), cfg.min_order_size_btc)

\* _place_order for a market buy outside a dry run: the call made on the
\* exchange and how it ended (automated_trader.py:226-239)
market_buy_order(btc_amount, order_answer) ==
    [call   |-> "create_market_buy_order",
     symbol |-> "BTC/USDT",
     amount |-> btc_amount,
     raised |-> order_answer.raises]

\* _execute_immediate_buy: self.current_position afterwards
execute_immediate_buy(cfg, current_position, btc_amount, order_answer) ==
    IF cfg.dry_run THEN QAdd(current_position, btc_amount)
    ELSE IF order_answer.raises THEN current_position
    ELSE QAdd(current_position, btc_amount)

\* _execute_immediate_buy: the orders the exchange has been sent afterwards
orders_after_buy(cfg, sent, btc_amount, order_answer) ==
    IF cfg.dry_run THEN sent
    ELSE Append(sent, market_buy_order(btc_amount, order_answer))

\* _execute_scaled_entry hands the whole amount to _execute_immediate_buy
execute_scaled_entry(cfg, current_position, total_btc_amount, order_answer) ==
    execute_immediate_buy(cfg, current_position, total_btc_amount, order_answer)

\* _execute_trade_plan: self.current_position afterwards
execute_trade_plan(cfg, current_position, trade_plan, target, order_answer) ==
    IF ~plan_buys(cfg, current_position, trade_plan, target) THEN current_position
    ELSE IF Get(trade_plan, "entry_strategy", "immediate")
                \in {"scaled_72h", "accumulate_30_days"}
    THEN execute_scaled_entry(cfg, current_position,
                              btc_to_buy(current_position, target), order_answer)
    ELSE execute_immediate_buy(cfg, current_position,
                               btc_to_buy(current_position, target), order_answer)

\* _execute_trade_plan: the orders the exchange has been sent afterwards
orders_after_plan(cfg, sent, current_position, trade_plan, target, order_answer) ==
    IF ~plan_buys(cfg, current_position, trade_plan, target) THEN sent
    ELSE orders_after_buy(cfg, sent, btc_to_buy(current_position, target), order_answer)

\* _check_and_execute_signals: the result is acted on
result_is_buy(result) ==
    Get(Get(result, "signals", <<>>), "buy_signal", FALSE)

\* _check_and_execute_signals: self.current_position afterwards
check_and_execute_signals(cfg, current_position, result, pv, btc_price, order_answer) ==
    IF result_is_buy(result)
    THEN execute_trade_plan(cfg, current_position, Get(result, "trade_plan", <<>>),
             target_btc_amount(Get(result, "trade_plan", <<>>), pv, btc_price),
             order_answer)
    ELSE current_position

\* _check_and_execute_signals: the orders the exchange has been sent afterwards
orders_after_signals(cfg, sent, current_position, result, pv, btc_price, order_answer) ==
    IF result_is_buy(result)
    THEN orders_after_plan(cfg, sent, current_position, Get(result, "trade_plan", <<>>),
             target_btc_amount(Get(result, "trade_plan", <<>>), pv, btc_price),
             order_answer)
    ELSE sent

\* What exchange.fetch_ticker('BTC/USDT') answers
Tickers == {[raises |-> TRUE], [raises |-> FALSE, last |-> 56000]}

\* What exchange.fetch_balance() answers
Balances ==
    {[raises |-> TRUE],
     [raises |-> FALSE, total |-> [BTC |-> 1]],
     [raises |-> FALSE, total |-> [USDT |-> 50000]]}

\* How exchange.create_market_buy_order ends
OrderAnswers == {[raises |-> TRUE], [raises |-> FALSE]}

\* In a dry run no method of the exchange is called and no answer is read.
Unasked ==
    [health_ticker |-> [raises |-> TRUE], price_ticker |-> [raises |-> TRUE],
     plan_ticker |-> [raises |-> TRUE], balance |-> [raises |-> TRUE],
     order |-> [raises |-> TRUE]]

\* The exchange's answers during one trading cycle, call by call: the ticker
\* of _health_check, of the cycle's _get_btc_price and of the plan's
\* _get_btc_price, the balance, and the order.
ExchangeAnswers(cfg) ==
    IF cfg.dry_run THEN {Unasked}
    ELSE [health_ticker : Tickers, price_ticker : Tickers, plan_ticker : Tickers,
          balance : Balances, order : OrderAnswers]

\* How exchange.load_markets() ends in _initialize_exchange; it is called
\* outside a dry run only (automated_trader.py:62-63).
LoadMarkets(cfg) == IF cfg.dry_run THEN {"ok"} ELSE {"ok", "raises"}

\* What the providers answer when the trader asks the model for its
\* strongest signal: an analysis that raises, one without readings, buys at
\* and above the threshold, and a Scenario 2 reading just below its threshold.
TraderWorlds(scenario) ==
    {[analyze_raises |-> TRUE]}
    \cup (IF scenario = 1
          THEN [analyze_raises : {FALSE},
                fred : {[raises |-> FALSE, current_rate |-> None,
                         pivot_info |-> [pivot_detected |-> FALSE,
                                         reason |-> "Insufficient data"]],
                        [raises |-> FALSE, current_rate |-> Some(One),
                         pivot_info |-> [pivot_detected |-> FALSE,
                                         reason |-> "Insufficient data"]],
                        [raises |-> FALSE, current_rate |-> Some(Q(1, 2)),
                         pivot_info |-> [pivot_detected |-> TRUE, direction |-> "cutting",
                                         magnitude |-> One]]},
                onchain : {[raises |-> FALSE, reserves |-> Some(Q(2300000, 1))]}]
          ELSE [analyze_raises : {FALSE},
                fred : {[raises |-> FALSE, m2_growth |-> Some(Q(12, 100)),
                         m2_acceleration |-> Some(Q(-1, 100))],
                        [raises |-> FALSE, m2_growth |-> Some(Q(20, 100)),
                         m2_acceleration |-> None]},
                onchain : {[raises |-> FALSE,
                            hash_data |-> [signal |-> "neutral",
                                           miner_capitulation |-> TRUE]]}])

\* What the scenario models' providers report to the model's health_check
\* during a cycle: all healthy, one degraded, or one model's check raising.
TraderProbes ==
    {<<[raises |-> FALSE, providers |-> <<"healthy", "healthy", "healthy">>],
       [raises |-> FALSE, providers |-> <<"healthy", "healthy", "healthy">>]>>,
     <<[raises |-> FALSE, providers |-> <<"healthy", "healthy", "healthy">>],
       [raises |-> FALSE, providers |-> <<"healthy", "degraded", "healthy">>]>>,
     <<[raises |-> FALSE, providers |-> <<"healthy", "healthy", "healthy">>],
       [raises |-> TRUE]>>}

\* Minutes from the start of one trading cycle to the start of the next: the
\* loop sleeps 60 seconds (automated_trader.py:83), or the cycle's calls take
\* a quarter of an hour.
CycleMinutes == {1, 15}

\* What the trader's methods leave alone in the model and its callers' state.
TraderFrame ==
    UNCHANGED <<settings, portfolio_value, analysis, run_outcome, invoked, previous,
                comparison, retry>>

\* An AutomatedTrader exists: __init__ returned.
Constructed == "state" \in DOMAIN trader /\ trader.state = "constructed"

\* AutomatedTrader(model, config)
Construct ==
    /\ trader = NoResult
    /\ \E cfg \in TradingConfigs, markets \in {"ok", "raises"} :
          /\ markets \in LoadMarkets(cfg)
          /\ config' = cfg
          /\ request' = [load_markets |-> markets]
          /\ trader' = IF validate(cfg) = <<>> /\ markets = "raises"
                       THEN [state |-> "raised"]
                       ELSE new_trader(validate(cfg))
    /\ safety' = IF trader'.state = "constructed" THEN NewSafetyManager ELSE safety
    /\ now' = 0
    /\ op' = "construct"
    /\ UNCHANGED <<fetched, all_signals, strongest, health, checks, orders>>
    /\ TraderFrame

\* start(): the flag; the loop's iterations are TradingCycle
Start ==
    /\ Constructed
    /\ trader' = [trader EXCEPT !.is_running = TRUE]
    /\ request' = NoResult
    /\ op' = "start"
    /\ UNCHANGED <<fetched, all_signals, strongest, health, safety, checks, config,
                   orders, now>>
    /\ TraderFrame

\* stop()
Stop ==
    /\ Constructed
    /\ trader' = [trader EXCEPT !.is_running = FALSE]
    /\ request' = NoResult
    /\ op' = "stop"
    /\ UNCHANGED <<fetched, all_signals, strongest, health, safety, checks, config,
                   orders, now>>
    /\ TraderFrame

\* One iteration of the loop of start(): _trading_cycle, then the sleep.
TradingCycle ==
    /\ Constructed
    /\ trader.is_running
    /\ \E probes \in TraderProbes, dt \in CycleMinutes, ex \in ExchangeAnswers(config) :
          /\ now + dt <= MaxMinutes
          /\ now' = now + dt
          /\ request' = [exchange |-> ex]
          /\ health' = health_check(probes)
          /\ IF ~trader_health_check(config, health', ex.health_ticker)
             THEN UNCHANGED <<safety, checks, trader, orders, fetched, all_signals, strongest>>
             ELSE /\ checks' = check_safety_conditions(safety,
                                   get_portfolio_value(config, ex.balance),
                                   get_btc_price(config, ex.price_ticker))
                  /\ safety' = price_checked(safety, get_btc_price(config, ex.price_ticker))
                  /\ IF ~(checks'.safe_to_trade
                            /\ signal_check_due(trader.last_signal_check, now))
                     THEN UNCHANGED <<trader, orders, fetched, all_signals, strongest>>
                     ELSE \E w1 \in TraderWorlds(1), w2 \in TraderWorlds(2) :
                            /\ fetched' = <<w1, w2>>
                            /\ all_signals' = get_all_signals(settings, <<w1, w2>>,
                                                  get_portfolio_value(config, ex.balance))
                            /\ strongest' = get_strongest_signal(all_signals')
                            /\ trader' = [trader EXCEPT
                                   !.current_position =
                                       check_and_execute_signals(config, @, strongest',
                                           get_portfolio_value(config, ex.balance),
                                           get_btc_price(config, ex.plan_ticker), ex.order),
                                   !.last_signal_check = Some(now)]
                            /\ orders' = orders_after_signals(config, orders,
                                             trader.current_position, strongest',
                                             get_portfolio_value(config, ex.balance),
                                             get_btc_price(config, ex.plan_ticker), ex.order)
    /\ op' = "trading_cycle"
    /\ UNCHANGED config
    /\ TraderFrame

TraderNext == Construct \/ Start \/ Stop \/ TradingCycle

TraderInit ==
    /\ settings \in [RISK_PROFILE : RiskProfiles, SIGNAL_THRESHOLDS : {SIGNAL_THRESHOLDS}]
    /\ portfolio_value = 100000
    /\ comparison = NoResult
    /\ NoRetry
    /\ NoTrader
    /\ Idle

TraderSpec == TraderInit /\ [][TraderNext]_vars

-----------------------------------------------------------------------------
(* Properties of the automated trader, checked under TraderSpec *)

\* max_position_size * portfolio_value / price for the trader's portfolio
\* value and price
PositionLimit ==
    QDiv(QMul(config.max_position_size, Q(get_portfolio_value(config, Unasked.balance), 1)),
         Q(get_btc_price(config, Unasked.plan_ticker), 1))

\* C26: after any sequence of trading cycles and executed trade plans, the
\* BTC position bought by AutomatedTrader never exceeds
\* max_position_size * portfolio_value / price, even when the trade plan asks
\* for a larger position_size.
C26_PositionWithinMaxPositionSize ==
    Constructed => QLe(trader.current_position, PositionLimit)

\* C26 witness: under the moderate risk profile and the default limit 0.10 a
\* cycle executed a plan asking for more than the limit, and the position
\* stands above 0.10 * 100000 / 50000 = 0.2 BTC.
C26_Witness ==
    /\ Constructed
    /\ op = "trading_cycle"
    /\ settings.RISK_PROFILE = "moderate"
    /\ config.max_position_size = Q(10, 100)
    /\ result_is_buy(strongest)
    /\ QGt(strongest.trade_plan.position_size, config.max_position_size)
    /\ trader.current_position
          = target_btc_amount(strongest.trade_plan, 100000, 50000)
    /\ QGt(trader.current_position, PositionLimit)

\* Under the conservative profile, whose plans stay below 0.10, the default
\* limit is never exceeded.
ConservativeWithinDefaultLimit ==
    (Constructed /\ settings.RISK_PROFILE = "conservative"
        /\ config.max_position_size = Q(10, 100)) =>
        QLe(trader.current_position, PositionLimit)

\* A TradingConfig has been handed to the constructor.
ConstructorCalled == "dry_run" \in DOMAIN config

\* The constructor left with ValueError, msg among the errors it reports.
RejectedWith(msg) ==
    /\ trader.state = "ValueError"
    /\ \E i \in DOMAIN trader.errors : trader.errors[i] = msg

\* C29: an AutomatedTrader can only be constructed in paper mode: a config
\* with testnet=False or dry_run=False makes the constructor raise ValueError
\* with the matching warning among its errors, every constructed trader has
\* testnet = true and dry_run = true, and no order reaches the exchange.
C29_PaperModeOnly ==
    /\ ConstructorCalled =>
          /\ ~config.testnet =>
                RejectedWith("WARNING: testnet=False means real money trading!")
          /\ ~config.dry_run =>
                RejectedWith("WARNING: dry_run=False means real order execution!")
    /\ Constructed => config.testnet /\ config.dry_run
    /\ orders = <<>>

\* C29 witness: a config that is valid in every limit but asks for real
\* order execution was rejected with the dry_run warning as its only error.
C29_Witness ==
    /\ ConstructorCalled
    /\ config.testnet
    /\ ~config.dry_run
    /\ limit_errors(config) = <<>>
    /\ trader = RejectedTrader(<<"WARNING: dry_run=False means real order execution!">>)
    /\ orders = <<>>

\* A paper trader bought in a cycle and the exchange saw no order.
PaperBuyWithoutOrder ==
    /\ Constructed
    /\ op = "trading_cycle"
    /\ config.dry_run
    /\ QGt(trader.current_position, Zero)
    /\ orders = <<>>

\* C30: no action of AutomatedTrader changes SafetyManager.daily_pnl,
\* consecutive_losses or trades_today: they stay at their initial 0 for the
\* whole run, only last_price_check changes, and no safety check of a run
\* answers safe_to_trade false.
C30_SafetyCountersUntouched ==
    Constructed =>
        /\ safety.daily_pnl = 0
        /\ safety.consecutive_losses = 0
        /\ safety.trades_today = 0
        /\ safety = [NewSafetyManager EXCEPT !.last_price_check = safety.last_price_check]
        /\ "safe_to_trade" \in DOMAIN checks =>
              /\ checks.safe_to_trade
              /\ checks.reasons = <<>>

\* C30 witness: the trader was started, cycles ran, a plan was executed in
\* the latest signal check and a later cycle checked safety again: the price
\* was recorded, the counters are 0 and the check allows trading.
C30_Witness ==
    /\ Constructed
    /\ op = "trading_cycle"
    /\ now > 1
    /\ QGt(trader.current_position, Zero)
    /\ trader.last_signal_check # None
    /\ safety.last_price_check = 50000
    /\ safety.trades_today = 0
    /\ safety.daily_pnl = 0
    /\ safety.consecutive_losses = 0
    /\ checks.safe_to_trade

====
